---- MODULE Spec2Model ----
(***************************************************************************)
(* Hook event log analytics: the summary engine (buildSummary), the        *)
(* session-detail projector (getSessionEvents, buildSessionDetail) and the *)
(* query layer built on them, modelled from viewer/data.ts and the MCP     *)
(* tool handlers; the viewer server's file selection and log reader        *)
(* (isValidFilename, parseLogFile) against the hook's appends; and the     *)
(* settings installer (mergeHooks, removeHooksByConfig, saveSettings).     *)
(*                                                                         *)
(* Representation.  JavaScript strings that the code takes apart           *)
(* (session_id, prompt, tool_input_summary, skill names) are sequences of  *)
(* one-character strings; strings that are only compared for equality     *)
(* (event, tool_name, tool_use_id, cwd) are TLA+ strings.  A field that is *)
(* undefined and a field that is the empty string are both falsy in every  *)
(* test the code makes, so both are the empty value ("" or <<>>); an       *)
(* absent boolean is FALSE.  A timestamp is the pair of minute digits of a *)
(* fixed-width ISO-8601 UTC string, all other fields being equal.          *)
(***************************************************************************)
EXTENDS Integers, Sequences, FiniteSets, TLC

VARIABLES
  events,   \* the event sequence handed to the engine (the parsed log)
  now,      \* Date.now(), in milliseconds
  http,     \* the last request served by the viewer server and its response
  logFile,  \* the log file on disk: whether it exists, and its characters
  writer,   \* the hook's append in progress: the characters not yet in the file
  reader,   \* the parseLogFile call in progress and the result of the last one
  settings, \* the settings object the installer works on
  config,   \* the hooks config handed to the installer
  installer, \* the installer's runs: how many, the last operation and its input
  disk,     \* the settings directory: the target file and the temporary file
  save,     \* the saveSettings call in progress
  logDir,   \* the log directory the hook scripts work on: names, inodes, lines
  hookProcs, \* the event-logger.sh runs and the rotate-logs.sh runs they start
  chat      \* the /api/chat request in progress and its response

engineVars   == <<events, now>>
serverVars   == <<http>>
logVars      == <<logFile, writer, reader>>
settingsVars == <<settings, config, installer>>
saveVars     == <<disk, save>>
rotateVars   == <<logDir, hookProcs>>
chatVars     == <<chat>>

vars == <<events, now, http, logFile, writer, reader, settings, config, installer,
         disk, save, logDir, hookProcs, chat>>

(***************************************************************************)
(* Bounds of the model.                                                    *)
(***************************************************************************)
MaxEvents == 3   \* events handed to the engine
MaxMiddle == 2   \* characters between the prefix and the suffix of a requested file name
MaxFragments == 3   \* writes that made up the log file a reader meets
MaxAppends == 2   \* lines the hook appends while the viewer reads
MaxGroups == 2   \* matcher groups of an event in the settings the installer is given
MaxRuns == 2   \* runs of the installer on the same settings
MaxChunks == 2   \* chunks of a settings file's text
MaxSaves == 2   \* calls of saveSettings on the same path
MaxLoggers == 2   \* runs of event-logger.sh, each with the rotation it may start
MaxMessages == 2   \* messages a conversation yields to the chat handler

(***************************************************************************)
(* String primitives of the JavaScript runtime.                            *)
(***************************************************************************)
UpperChars == <<"A","B","C","D","E","F","G","H","I","J","K","L","M","N","O","P","Q","R","S","T","U","V","W","X","Y","Z">>
LowerChars == <<"a","b","c","d","e","f","g","h","i","j","k","l","m","n","o","p","q","r","s","t","u","v","w","x","y","z">>

\* The characters matched by /\s/ and stripped by String.prototype.trim.
IsWhitespace(c) == c \in {" ", "\t", "\n", "\r"}

LowerChar(c) ==
  IF \E i \in 1..Len(UpperChars) : UpperChars[i] = c
  THEN LowerChars[CHOOSE i \in 1..Len(UpperChars) : UpperChars[i] = c]
  ELSE c

toLowerCase(s) == [i \in 1..Len(s) |-> LowerChar(s[i])]

RECURSIVE TrimStart(_)
TrimStart(s) ==
  IF s # <<>> /\ IsWhitespace(Head(s)) THEN TrimStart(Tail(s)) ELSE s

RECURSIVE TrimEnd(_)
TrimEnd(s) ==
  IF s # <<>> /\ IsWhitespace(s[Len(s)]) THEN TrimEnd(SubSeq(s, 1, Len(s) - 1)) ELSE s

trim(s) == TrimEnd(TrimStart(s))

startsWith(s, p) == Len(p) <= Len(s) /\ SubSeq(s, 1, Len(p)) = p

\* s.split(/\s/)[0]: the characters before the first whitespace character.
RECURSIVE FirstToken(_)
FirstToken(s) ==
  IF s = <<>> \/ IsWhitespace(Head(s)) THEN <<>> ELSE <<Head(s)>> \o FirstToken(Tail(s))

\* s.slice(1)
SliceFromOne(s) == IF s = <<>> THEN <<>> ELSE Tail(s)

\* s.includes(p)
includes(s, p) ==
  \E i \in 1..(Len(s) - Len(p) + 1) : SubSeq(s, i, i + Len(p) - 1) = p

\* a < b on strings: code-unit lexicographic order, a proper prefix is smaller.
RECURSIVE StrLess(_, _)
StrLess(a, b) ==
  IF b = <<>> THEN FALSE
  ELSE IF a = <<>> THEN TRUE
  ELSE IF Head(a) # Head(b) THEN Head(a) < Head(b)
  ELSE StrLess(Tail(a), Tail(b))

\* new Date(ts).getTime(): milliseconds of the timestamp whose minute field is ts.
DateGetTime(ts) == (ts[1] * 10 + ts[2]) * 60 * 1000

UNKNOWN == <<"u","n","k","n","o","w","n">>

BUILTIN_COMMANDS ==
  {
    <<"/","c","l","e","a","r">>,
    <<"/","c","o","m","p","a","c","t">>,
    <<"/","c","o","n","f","i","g">>,
    <<"/","c","o","n","t","e","x","t">>,
    <<"/","c","o","p","y">>,
    <<"/","c","o","s","t">>,
    <<"/","d","e","b","u","g">>,
    <<"/","d","e","s","k","t","o","p">>,
    <<"/","d","o","c","t","o","r">>,
    <<"/","e","x","i","t">>,
    <<"/","e","x","p","o","r","t">>,
    <<"/","h","e","l","p">>,
    <<"/","i","n","i","t">>,
    <<"/","m","c","p">>,
    <<"/","m","e","m","o","r","y">>,
    <<"/","m","o","d","e","l">>,
    <<"/","p","e","r","m","i","s","s","i","o","n","s">>,
    <<"/","p","l","a","n">>,
    <<"/","r","e","n","a","m","e">>,
    <<"/","r","e","s","u","m","e">>,
    <<"/","r","e","w","i","n","d">>,
    <<"/","s","t","a","t","s">>,
    <<"/","s","t","a","t","u","s">>,
    <<"/","s","t","a","t","u","s","l","i","n","e">>,
    <<"/","t","a","s","k","s">>,
    <<"/","t","e","l","e","p","o","r","t">>,
    <<"/","t","h","e","m","e">>,
    <<"/","t","o","d","o","s">>,
    <<"/","u","s","a","g","e">>,
    <<"/","a","d","d","-","d","i","r">>,
    <<"/","a","g","e","n","t","s">>,
    <<"/","b","u","g">>,
    <<"/","h","o","o","k","s">>,
    <<"/","i","d","e">>,
    <<"/","i","n","s","t","a","l","l","-","g","i","t","h","u","b","-","a","p","p">>,
    <<"/","l","o","g","i","n">>,
    <<"/","l","o","g","o","u","t">>,
    <<"/","o","u","t","p","u","t","-","s","t","y","l","e">>,
    <<"/","p","l","u","g","i","n">>,
    <<"/","p","r","-","c","o","m","m","e","n","t","s">>,
    <<"/","p","r","i","v","a","c","y","-","s","e","t","t","i","n","g","s">>,
    <<"/","r","e","l","e","a","s","e","-","n","o","t","e","s">>,
    <<"/","r","e","m","o","t","e","-","e","n","v">>,
    <<"/","r","e","v","i","e","w">>,
    <<"/","s","a","n","d","b","o","x">>,
    <<"/","s","e","c","u","r","i","t","y","-","r","e","v","i","e","w">>,
    <<"/","t","e","r","m","i","n","a","l","-","s","e","t","u","p">>,
    <<"/","v","i","m">>,
    <<"/","f","a","s","t">>,
    <<"/","s","l","o","w">>,
    <<"/","l","i","s","t","e","n">>
  }

\* isBuiltinCommand without the toLowerCase() of line 20.
isBuiltinCommandCaseSensitive(prompt) == FirstToken(prompt) \in BUILTIN_COMMANDS

isBuiltinCommand(prompt) ==
  LET cmd == toLowerCase(FirstToken(prompt))
  IN  cmd \in BUILTIN_COMMANDS

(***************************************************************************)
(* Insertion-ordered Map<string, number> and Set<string>, as sequences.    *)
(***************************************************************************)
MapHas(m, k) == \E i \in 1..Len(m) : m[i].name = k

\* m.set(k, (m.get(k) || 0) + 1)
MapIncrement(m, k) ==
  IF MapHas(m, k)
  THEN [i \in 1..Len(m) |-> IF m[i].name = k THEN [m[i] EXCEPT !.count = @ + 1] ELSE m[i]]
  ELSE Append(m, [name |-> k, count |-> 1])

MapCount(m, k) ==
  IF MapHas(m, k) THEN m[CHOOSE i \in 1..Len(m) : m[i].name = k].count ELSE 0

SetHas(s, x) == \E i \in 1..Len(s) : s[i] = x

SetAdd(s, x) == IF SetHas(s, x) THEN s ELSE Append(s, x)

(***************************************************************************)
(* Array.prototype.sort of the runtime (V8, arrays shorter than 64         *)
(* elements): the leading run is found and made ascending, then the rest   *)
(* is placed by binary insertion.  The comparator is named by cmp.         *)
(***************************************************************************)
Compare(cmp, a, b) ==
  IF cmp = "count" THEN b.count - a.count                   \* (a, b) => b.count - a.count
  ELSE IF StrLess(a.lastTs, b.lastTs) THEN 1 ELSE -1         \* (a, b) => b.lastTs > a.lastTs ? 1 : -1

Reverse(s) == [i \in 1..Len(s) |-> s[Len(s) + 1 - i]]

RECURSIVE RunEnd(_, _, _, _)
\* Last index of the run starting at 1, given that indices 1..i are in it.
RunEnd(cmp, arr, i, descending) ==
  IF i >= Len(arr) THEN i
  ELSE LET order == Compare(cmp, arr[i + 1], arr[i])
       IN  IF descending
           THEN IF order >= 0 THEN i ELSE RunEnd(cmp, arr, i + 1, descending)
           ELSE IF order < 0 THEN i ELSE RunEnd(cmp, arr, i + 1, descending)

RECURSIVE BinarySearch(_, _, _, _, _)
\* Insertion point for pivot in the sorted prefix arr[left+1 .. right] (0-based bounds).
BinarySearch(cmp, arr, pivot, left, right) ==
  IF left >= right THEN left
  ELSE LET mid == left + ((right - left) \div 2)
       IN  IF Compare(cmp, pivot, arr[mid + 1]) < 0
           THEN BinarySearch(cmp, arr, pivot, left, mid)
           ELSE BinarySearch(cmp, arr, pivot, mid + 1, right)

RECURSIVE BinaryInsertionSort(_, _, _)
\* arr[1..start] is sorted; insert arr[start+1..] one at a time.
BinaryInsertionSort(cmp, arr, start) ==
  IF start >= Len(arr) THEN arr
  ELSE LET pivot == arr[start + 1]
           left  == BinarySearch(cmp, arr, pivot, 0, start)
           next  == SubSeq(arr, 1, left) \o <<pivot>> \o SubSeq(arr, left + 1, start)
                    \o SubSeq(arr, start + 2, Len(arr))
       IN  BinaryInsertionSort(cmp, next, start + 1)

ArraySort(cmp, arr) ==
  IF Len(arr) < 2 THEN arr
  ELSE LET descending == Compare(cmp, arr[2], arr[1]) < 0
           runLen     == RunEnd(cmp, arr, 2, descending)
           run        == SubSeq(arr, 1, runLen)
           made       == (IF descending THEN Reverse(run) ELSE run)
                         \o SubSeq(arr, runLen + 1, Len(arr))
       IN  BinaryInsertionSort(cmp, made, runLen)

(***************************************************************************)
(* buildSummary: the single pass over the events.                          *)
(***************************************************************************)
LIVE_THRESHOLD_MS == 5 * 60 * 1000

EmptyPass ==
  [sessions |-> <<>>, toolCounts |-> <<>>, skillCounts |-> <<>>,
   preToolIds |-> <<>>, postToolIds |-> <<>>, interrupts |-> <<>>]

\* The session key without the "unknown" default of line 115.
SessionKeyNoDefault(ev) == ev.session_id

\* ev.session_id || "unknown"
SessionKey(ev) == IF ev.session_id = <<>> THEN UNKNOWN ELSE ev.session_id

HasSession(sessions, sid) == \E i \in 1..Len(sessions) : sessions[i].id = sid

SessionIndex(sessions, sid) == CHOOSE i \in 1..Len(sessions) : sessions[i].id = sid

NewSession(sid, ev) ==
  [id |-> sid, cwd |-> ev.cwd, eventCount |-> 0, firstTs |-> ev.ts, lastTs |-> ev.ts,
   hasInterrupt |-> FALSE, orphanCount |-> 0, hasSessionStart |-> FALSE,
   hasSessionEnd |-> FALSE, isLive |-> FALSE, isStale |-> FALSE]

\* The interrupt test without the event type of line 167.
IsInterruptAnyEvent(ev) == ev.data.stop_hook_active

IsInterrupt(ev) == ev.event = "Stop" /\ ev.data.stop_hook_active

\* The updates of lines 132-134 and 164-168 to the session of ev.
TouchSession(sess, ev) ==
  [sess EXCEPT
     !.eventCount = @ + 1,
     !.firstTs = IF StrLess(ev.ts, @) THEN ev.ts ELSE @,
     !.lastTs = IF StrLess(@, ev.ts) THEN ev.ts ELSE @,
     !.hasSessionStart = @ \/ ev.event = "SessionStart",
     !.hasSessionEnd = @ \/ ev.event = "SessionEnd",
     !.hasInterrupt = @ \/ IsInterrupt(ev)]

\* The tool-name counter restricted to PreToolUse events.
CountToolPreOnly(toolCounts, ev) ==
  IF ev.event = "PreToolUse" /\ ev.data.tool_name # ""
  THEN MapIncrement(toolCounts, ev.data.tool_name) ELSE toolCounts

\* The tool-name counter, shared by buildSummary and buildSessionDetail.
CountTool(toolCounts, ev) ==
  IF ev.data.tool_name # "" THEN MapIncrement(toolCounts, ev.data.tool_name) ELSE toolCounts

\* The Skill tool counter, shared by buildSummary and buildSessionDetail.
CountSkillTool(skillCounts, ev) ==
  IF ev.event = "PreToolUse" /\ ev.data.tool_name = "Skill"
  THEN MapIncrement(skillCounts,
         IF ev.data.tool_input_summary = <<>> THEN UNKNOWN ELSE ev.data.tool_input_summary)
  ELSE skillCounts

\* The slash-command counter of buildSummary.
CountSlashCommand(skillCounts, ev) ==
  IF ev.event = "UserPromptSubmit"
  THEN LET prompt == trim(ev.data.prompt)
       IN  IF startsWith(prompt, <<"/">>) /\ ~isBuiltinCommand(prompt)
           THEN MapIncrement(skillCounts, SliceFromOne(FirstToken(prompt)))
           ELSE skillCounts
  ELSE skillCounts

RecordPreToolId(ids, ev) ==
  IF ev.event = "PreToolUse" /\ ev.data.tool_use_id # "" THEN SetAdd(ids, ev.data.tool_use_id) ELSE ids

\* The completion test without PostToolUseFailure.
RecordPostToolIdSuccessOnly(ids, ev) ==
  IF ev.event = "PostToolUse" /\ ev.data.tool_use_id # "" THEN SetAdd(ids, ev.data.tool_use_id) ELSE ids

RecordPostToolId(ids, ev) ==
  IF ev.event \in {"PostToolUse", "PostToolUseFailure"} /\ ev.data.tool_use_id # ""
  THEN SetAdd(ids, ev.data.tool_use_id) ELSE ids

SummaryStep(st, ev) ==
  LET sid      == SessionKey(ev)
      sessions == IF HasSession(st.sessions, sid) THEN st.sessions
                  ELSE Append(st.sessions, NewSession(sid, ev))
      k        == SessionIndex(sessions, sid)
  IN  [sessions    |-> [sessions EXCEPT ![k] = TouchSession(@, ev)],
       toolCounts  |-> CountTool(st.toolCounts, ev),
       skillCounts |-> CountSlashCommand(CountSkillTool(st.skillCounts, ev), ev),
       preToolIds  |-> RecordPreToolId(st.preToolIds, ev),
       postToolIds |-> RecordPostToolId(st.postToolIds, ev),
       interrupts  |-> IF IsInterrupt(ev) THEN Append(st.interrupts, ev) ELSE st.interrupts]

RECURSIVE SummaryPass(_, _, _)
SummaryPass(evs, i, st) ==
  IF i > Len(evs) THEN st ELSE SummaryPass(evs, i + 1, SummaryStep(st, evs[i]))

\* The classification with the threshold itself counted as stale.
ClassifyStrict(sess, clock) ==
  IF sess.hasSessionStart /\ ~sess.hasSessionEnd
  THEN LET elapsed == clock - DateGetTime(sess.lastTs)
       IN  [sess EXCEPT !.isLive = elapsed < LIVE_THRESHOLD_MS,
                        !.isStale = elapsed >= LIVE_THRESHOLD_MS]
  ELSE [sess EXCEPT !.isLive = FALSE, !.isStale = FALSE]

\* Lines 173-185: live / stale classification against the clock.
Classify(sess, clock) ==
  IF sess.hasSessionStart /\ ~sess.hasSessionEnd
  THEN LET elapsed == clock - DateGetTime(sess.lastTs)
       IN  [sess EXCEPT !.isLive = elapsed <= LIVE_THRESHOLD_MS,
                        !.isStale = elapsed > LIVE_THRESHOLD_MS]
  ELSE [sess EXCEPT !.isLive = FALSE, !.isStale = FALSE]

\* Lines 187-190.
OrphanIds(preToolIds, postToolIds) ==
  SelectSeq(preToolIds, LAMBDA id : ~SetHas(postToolIds, id))

\* Line 193: the events that add one to their session's orphanCount.
IsOrphanPre(ev, orphanIds) ==
  ev.event = "PreToolUse" /\ ev.data.tool_use_id # "" /\ SetHas(orphanIds, ev.data.tool_use_id)

\* Lines 192-197: the second pass over the events.
RECURSIVE OrphanPass(_, _, _, _)
OrphanPass(evs, i, sessions, orphanIds) ==
  IF i > Len(evs) THEN sessions
  ELSE LET ev == evs[i]
           sid == SessionKey(ev)
       IN  IF IsOrphanPre(ev, orphanIds) /\ HasSession(sessions, sid)
           THEN OrphanPass(evs, i + 1,
                  [sessions EXCEPT ![SessionIndex(sessions, sid)].orphanCount = @ + 1],
                  orphanIds)
           ELSE OrphanPass(evs, i + 1, sessions, orphanIds)

buildSummary(evs, clock) ==
  LET st         == SummaryPass(evs, 1, EmptyPass)
      classified == [i \in 1..Len(st.sessions) |-> Classify(st.sessions[i], clock)]
      orphanIds  == OrphanIds(st.preToolIds, st.postToolIds)
      sessions   == OrphanPass(evs, 1, classified, orphanIds)
      toolUsage  == ArraySort("count", st.toolCounts)
      skillUsage == ArraySort("count", st.skillCounts)
  IN  [totalEvents       |-> Len(evs),
       sessionCount      |-> Len(sessions),
       liveSessionCount  |-> Cardinality({i \in 1..Len(sessions) : sessions[i].isLive}),
       staleSessionCount |-> Cardinality({i \in 1..Len(sessions) : sessions[i].isStale}),
       toolCount         |-> Len(toolUsage),
       interruptCount    |-> Len(st.interrupts),
       orphanCount       |-> Len(orphanIds),
       sessions          |-> ArraySort("lastTs", sessions),
       toolUsage         |-> toolUsage,
       skillUsage        |-> skillUsage,
       orphanIds         |-> orphanIds]

(***************************************************************************)
(* Session-detail projector and time filter.                               *)
(***************************************************************************)
Null == <<>>

\* since && ev.ts < since ... until && ev.ts > until
filterEventsByTime(evs, since, until) ==
  SelectSeq(evs, LAMBDA ev :
    /\ ~(since # <<>> /\ StrLess(ev.ts, since))
    /\ ~(until # <<>> /\ StrLess(until, ev.ts)))

\* The filter without the startsWith() of line 267.
MatchesSessionExact(ev, sessionId) == ev.session_id = sessionId

\* The filter of getSessionEvents: (ev.session_id || "") equals or starts with the argument.
MatchesSession(ev, sessionId) ==
  ev.session_id = sessionId \/ startsWith(ev.session_id, sessionId)

getSessionEvents(evs, sessionId) ==
  SelectSeq(evs, LAMBDA ev : MatchesSession(ev, sessionId))

EmptyDetail(sessionId) ==
  [sessionId |-> sessionId, eventCount |-> 0, firstTs |-> Null, lastTs |-> Null,
   cwd |-> "", tools |-> <<>>, skills |-> <<>>, events |-> <<>>]

\* One entry of the detail's event list (lines 308-313).
EventEntry(ev) ==
  [event |-> ev.event, ts |-> ev.ts, tool |-> ev.data.tool_name,
   detail |-> ev.data.tool_input_summary]

\* the step with the entry put in front of the list
DetailStepPrepend(st, ev) ==
  [firstTs     |-> IF StrLess(ev.ts, st.firstTs) THEN ev.ts ELSE st.firstTs,
   lastTs      |-> IF StrLess(st.lastTs, ev.ts) THEN ev.ts ELSE st.lastTs,
   cwd         |-> IF ev.cwd # "" /\ st.cwd = "" THEN ev.cwd ELSE st.cwd,
   toolCounts  |-> CountTool(st.toolCounts, ev),
   skillCounts |-> CountSkillTool(st.skillCounts, ev),
   eventList   |-> <<EventEntry(ev)>> \o st.eventList]

DetailStep(st, ev) ==
  [firstTs     |-> IF StrLess(ev.ts, st.firstTs) THEN ev.ts ELSE st.firstTs,
   lastTs      |-> IF StrLess(st.lastTs, ev.ts) THEN ev.ts ELSE st.lastTs,
   cwd         |-> IF ev.cwd # "" /\ st.cwd = "" THEN ev.cwd ELSE st.cwd,
   toolCounts  |-> CountTool(st.toolCounts, ev),
   skillCounts |-> CountSkillTool(st.skillCounts, ev),
   eventList   |-> Append(st.eventList, EventEntry(ev))]

RECURSIVE DetailPass(_, _, _)
DetailPass(evs, i, st) ==
  IF i > Len(evs) THEN st ELSE DetailPass(evs, i + 1, DetailStep(st, evs[i]))

buildSessionDetail(evs, sessionId) ==
  LET sessionEvents == getSessionEvents(evs, sessionId)
  IN  IF Len(sessionEvents) = 0 THEN EmptyDetail(sessionId)
      ELSE LET st == DetailPass(sessionEvents, 1,
                       [firstTs |-> sessionEvents[1].ts, lastTs |-> sessionEvents[1].ts,
                        cwd |-> "", toolCounts |-> <<>>, skillCounts |-> <<>>,
                        eventList |-> <<>>])
           IN  [sessionId  |-> sessionId,
                eventCount |-> Len(sessionEvents),
                firstTs    |-> st.firstTs,
                lastTs     |-> st.lastTs,
                cwd        |-> st.cwd,
                tools      |-> ArraySort("count", st.toolCounts),
                skills     |-> ArraySort("count", st.skillCounts),
                events     |-> st.eventList]

(***************************************************************************)
(* Query layer (MCP tool handlers).  An optional argument is <<>> when it  *)
(* is not given; a given number n is <<n>>.                                *)
(***************************************************************************)
\* new Date(ms).toISOString(), as the minute digits and the rest of the minute.
toISOString(ms) == <<(ms \div 60000) \div 10, (ms \div 60000) % 10, ms % 60000>>

\* arr.slice(0, n) for n >= 0
SliceTo(arr, n) == SubSeq(arr, 1, IF n < Len(arr) THEN n ELSE Len(arr))

\* s.isLive ? "live" : s.isStale ? "stale" : "ended"
SessionStatus(s) == IF s.isLive THEN "live" ELSE IF s.isStale THEN "stale" ELSE "ended"

\* the status filter taking every session that is not live for an ended one
StatusFilterNotLive(s, status) ==
  IF status = "live" THEN s.isLive
  ELSE IF status = "stale" THEN s.isStale
  ELSE IF status = "ended" THEN ~s.isLive
  ELSE TRUE

StatusFilter(s, status) ==
  IF status = "live" THEN s.isLive
  ELSE IF status = "stale" THEN s.isStale
  ELSE IF status = "ended" THEN ~s.isLive /\ ~s.isStale
  ELSE TRUE

handleListSessions(log, clock, args) ==
  LET summary  == buildSummary(log, clock)
      byStatus == IF args.status # "" /\ args.status # "all"
                  THEN SelectSeq(summary.sessions, LAMBDA s : StatusFilter(s, args.status))
                  ELSE summary.sessions
      bySince  == IF args.since # <<>>
                  THEN SelectSeq(byStatus, LAMBDA s : ~StrLess(s.lastTs, args.since))
                  ELSE byStatus
      limit    == IF args.limit = <<>> THEN 50 ELSE args.limit[1]
      cut      == SliceTo(bySince, limit)
  IN  [i \in 1..Len(cut) |->
         [id |-> cut[i].id, status |-> SessionStatus(cut[i]),
          eventCount |-> cut[i].eventCount, cwd |-> cut[i].cwd,
          firstTs |-> cut[i].firstTs, lastTs |-> cut[i].lastTs,
          hasInterrupt |-> cut[i].hasInterrupt, orphanCount |-> cut[i].orphanCount]]

handleGetRecentActivity(log, clock, args) ==
  LET minutes  == IF args.minutes = <<>> THEN 30 ELSE args.minutes[1]
      sinceTs  == IF args.since # <<>> THEN args.since
                  ELSE toISOString(clock - minutes * 60 * 1000)
      filtered == filterEventsByTime(log, sinceTs, <<>>)
      summary  == buildSummary(filtered, clock)
  IN  [timeRange        |-> [since |-> sinceTs, until |-> toISOString(clock)],
       totalEvents      |-> summary.totalEvents,
       sessionCount     |-> summary.sessionCount,
       liveSessionCount |-> summary.liveSessionCount,
       topTools         |-> SliceTo(summary.toolUsage, 10),
       topSkills        |-> SliceTo(summary.skillUsage, 10),
       sessions         |-> [i \in 1..Len(summary.sessions) |->
                               [id |-> summary.sessions[i].id,
                                status |-> SessionStatus(summary.sessions[i]),
                                eventCount |-> summary.sessions[i].eventCount,
                                cwd |-> summary.sessions[i].cwd]]]

(***************************************************************************)
(* The viewer server: file selection (isValidFilename) and the two         *)
(* endpoints that read a log file chosen by the caller.                    *)
(***************************************************************************)
HOOK_EVENTS == <<"h","o","o","k","-","e","v","e","n","t","s">>
JSONL == <<".","j","s","o","n","l">>
DEFAULT_FILE == HOOK_EVENTS \o JSONL

Digits == <<"0","1","2","3","4","5","6","7","8","9">>

\* \w of a JavaScript regular expression without the u and i flags: [A-Za-z0-9_]
IsWordChar(c) ==
  \/ \E i \in 1..Len(UpperChars) : UpperChars[i] = c
  \/ \E i \in 1..Len(LowerChars) : LowerChars[i] = c
  \/ \E i \in 1..Len(Digits) : Digits[i] = c
  \/ c = "_"

\* the character class [\w.-]
IsNameChar(c) == IsWordChar(c) \/ c = "." \/ c = "-"

\* /^hook-events[\w.-]*\.jsonl$/.test(file): the literal prefix at the start,
\* some run of class characters, and the literal suffix up to the very end
\* ($ without the m flag matches only at the end of the input).
FilenamePattern(file) ==
  \E k \in Len(HOOK_EVENTS)..Len(file) :
    /\ startsWith(file, HOOK_EVENTS)
    /\ \A i \in (Len(HOOK_EVENTS) + 1)..k : IsNameChar(file[i])
    /\ SubSeq(file, k + 1, Len(file)) = JSONL

isValidFilenameNoTraversalCheck(file) ==
  IF file = <<>> \/ includes(file, <<"/">>) \/ includes(file, <<"\\">>)
  THEN FALSE
  ELSE FilenamePattern(file)

isValidFilename(file) ==
  IF file = <<>> \/ includes(file, <<".", ".">>) \/ includes(file, <<"/">>)
       \/ includes(file, <<"\\">>)
  THEN FALSE
  ELSE FilenamePattern(file)

\* url.searchParams.get("file") || "hook-events.jsonl": an absent parameter
\* (null) and an empty one ("") both take the default.
FileParam(param) == IF param = <<>> THEN DEFAULT_FILE ELSE param

NoRequest == [pathname |-> "", param |-> <<>>, status |-> 0, error |-> FALSE, read |-> <<>>]

\* One exchange of /api/events or /api/summary.  read lists the file names
\* handed to parseLogFile while serving the request.
ServeLogRequest(pathname, param) ==
  LET file == FileParam(param)
  IN  IF ~isValidFilename(file)
      THEN [pathname |-> pathname, param |-> param, status |-> 400, error |-> TRUE,
            read |-> <<>>]
      ELSE [pathname |-> pathname, param |-> param, status |-> 200, error |-> FALSE,
            read |-> <<file>>]

(***************************************************************************)
(* JSON.parse, on the texts the model writes to the log: objects with      *)
(* string keys, strings without escapes or control characters,             *)
(* non-negative integers and the literals null, true and false, with JSON  *)
(* whitespace between the tokens.  A value is a record of its kind and     *)
(* content; the members of an object are kept in insertion order, a        *)
(* repeated key keeping its place and taking the later value.  A parse     *)
(* that fails is the SyntaxError JSON.parse throws.                        *)
(***************************************************************************)
JValue(kind, num, str, members) ==
  [kind |-> kind, num |-> num, str |-> str, members |-> members]

JNull == JValue("null", 0, <<>>, <<>>)

ParseFail == [ok |-> FALSE, value |-> JNull, rest |-> <<>>]
ParseOk(v, rest) == [ok |-> TRUE, value |-> v, rest |-> rest]

IsJsonWhitespace(c) == c \in {" ", "\t", "\n", "\r"}

RECURSIVE SkipWhitespace(_)
SkipWhitespace(s) ==
  IF s # <<>> /\ IsJsonWhitespace(Head(s)) THEN SkipWhitespace(Tail(s)) ELSE s

IsDigit(c) == \E i \in 1..Len(Digits) : Digits[i] = c
DigitValue(c) == (CHOOSE i \in 1..Len(Digits) : Digits[i] = c) - 1

\* the characters of a string up to its closing quote
RECURSIVE ParseStringChars(_, _)
ParseStringChars(s, acc) ==
  IF s = <<>> THEN ParseFail
  ELSE IF Head(s) = "\"" THEN ParseOk(JValue("string", 0, acc, <<>>), Tail(s))
  ELSE IF Head(s) \in {"\n", "\t", "\r"} THEN ParseFail
  ELSE ParseStringChars(Tail(s), Append(acc, Head(s)))

RECURSIVE ParseDigits(_, _)
ParseDigits(s, n) ==
  IF s # <<>> /\ IsDigit(Head(s))
  THEN ParseDigits(Tail(s), n * 10 + DigitValue(Head(s)))
  ELSE ParseOk(JValue("number", n, <<>>, <<>>), s)

\* a number does not continue after a leading zero
ParseNumber(s) ==
  IF Head(s) = "0" THEN ParseOk(JValue("number", 0, <<>>, <<>>), Tail(s))
  ELSE ParseDigits(s, 0)

ParseLiteral(s) ==
  IF startsWith(s, <<"n","u","l","l">>) THEN ParseOk(JNull, SubSeq(s, 5, Len(s)))
  ELSE IF startsWith(s, <<"t","r","u","e">>)
    THEN ParseOk(JValue("true", 0, <<>>, <<>>), SubSeq(s, 5, Len(s)))
  ELSE IF startsWith(s, <<"f","a","l","s","e">>)
    THEN ParseOk(JValue("false", 0, <<>>, <<>>), SubSeq(s, 6, Len(s)))
  ELSE ParseFail

SetMember(members, key, value) ==
  IF \E i \in 1..Len(members) : members[i].key = key
  THEN [i \in 1..Len(members) |->
          IF members[i].key = key THEN [key |-> key, value |-> value] ELSE members[i]]
  ELSE Append(members, [key |-> key, value |-> value])

RECURSIVE ParseValue(_)
RECURSIVE ParseMembers(_, _)

\* what follows a member: the end of the object or a comma and another member
AfterMemberUnterminated(s, members) ==
  IF s = <<>> THEN ParseOk(JValue("object", 0, <<>>, members), <<>>)
  ELSE IF Head(s) = "}" THEN ParseOk(JValue("object", 0, <<>>, members), Tail(s))
  ELSE IF Head(s) = "," THEN ParseMembers(SkipWhitespace(Tail(s)), members)
  ELSE ParseFail

AfterMember(s, members) ==
  IF s = <<>> THEN ParseFail
  ELSE IF Head(s) = "}" THEN ParseOk(JValue("object", 0, <<>>, members), Tail(s))
  ELSE IF Head(s) = "," THEN ParseMembers(SkipWhitespace(Tail(s)), members)
  ELSE ParseFail

\* key : value, s standing at the key
ParseMembers(s, acc) ==
  IF s = <<>> \/ Head(s) # "\"" THEN ParseFail
  ELSE LET k == ParseStringChars(Tail(s), <<>>)
           afterKey == SkipWhitespace(k.rest)
       IN  IF ~k.ok \/ afterKey = <<>> \/ Head(afterKey) # ":" THEN ParseFail
           ELSE LET v == ParseValue(SkipWhitespace(Tail(afterKey)))
                IN  IF ~v.ok THEN ParseFail
                    ELSE AfterMember(SkipWhitespace(v.rest),
                                     SetMember(acc, k.value.str, v.value))

ParseValue(s) ==
  IF s = <<>> THEN ParseFail
  ELSE IF Head(s) = "{"
    THEN LET r == SkipWhitespace(Tail(s))
         IN  IF r # <<>> /\ Head(r) = "}"
             THEN ParseOk(JValue("object", 0, <<>>, <<>>), Tail(r))
             ELSE ParseMembers(r, <<>>)
  ELSE IF Head(s) = "\"" THEN ParseStringChars(Tail(s), <<>>)
  ELSE IF IsDigit(Head(s)) THEN ParseNumber(s)
  ELSE ParseLiteral(s)

\* JSON.parse(text): one value, and nothing but whitespace around it
JSONParse(text) ==
  LET r == ParseValue(SkipWhitespace(text))
  IN  IF r.ok /\ SkipWhitespace(r.rest) = <<>>
      THEN [ok |-> TRUE, value |-> r.value]
      ELSE [ok |-> FALSE, value |-> JNull]

(***************************************************************************)
(* parseLogFile: the log reader.                                           *)
(***************************************************************************)
\* content.split("\n"): the pieces between the newline characters, one more
\* than there are newlines.
RECURSIVE SplitLines(_, _)
SplitLines(content, line) ==
  IF content = <<>> THEN <<line>>
  ELSE IF Head(content) = "\n" THEN <<line>> \o SplitLines(Tail(content), <<>>)
  ELSE SplitLines(Tail(content), Append(line, Head(content)))

NoEvents == [threw |-> FALSE, events |-> <<>>]

\* the body of the loop without the try/catch: the SyntaxError leaves the call
ParseLineNoCatch(acc, line) ==
  LET trimmed == trim(line)
      parsed  == JSONParse(trimmed)
  IN  IF acc.threw \/ trimmed = <<>> THEN acc
      ELSE IF parsed.ok THEN [acc EXCEPT !.events = Append(@, parsed.value)]
      ELSE [acc EXCEPT !.threw = TRUE]

\* the body of the loop: trim, skip the empty line, push the decoded value or
\* swallow the SyntaxError
ParseLine(acc, line) ==
  LET trimmed == trim(line)
      parsed  == JSONParse(trimmed)
  IN  IF acc.threw \/ trimmed = <<>> THEN acc
      ELSE IF parsed.ok THEN [acc EXCEPT !.events = Append(@, parsed.value)]
      ELSE acc

RECURSIVE ParseLines(_, _)
ParseLines(lines, acc) ==
  IF lines = <<>> THEN acc ELSE ParseLines(Tail(lines), ParseLine(acc, Head(lines)))

\* the part of parseLogFile after readFileSync
ParseContent(content) == ParseLines(SplitLines(content, <<>>), NoEvents)

AbsentFile == [exists |-> FALSE, content |-> <<>>]

parseLogFile(file) ==
  IF ~file.exists THEN NoEvents ELSE ParseContent(file.content)

\* The hook's append in progress (pending: the characters of the line and its
\* newline not yet in the file) with the lines whose append began and the
\* number of appends that completed.
IdleWriter == [pending |-> <<>>, lines |-> <<>>, done |-> 0]

\* The parseLogFile call in progress and the outcome of the last call, with
\* what the call saw: the appends completed when it began, the file it read
\* and the number of lines whose text was all in the file when it read.
IdleReader ==
  [pc |-> "idle", returned |-> FALSE, doneAtStart |-> 0, snapshot |-> AbsentFile,
   complete |-> 0, result |-> NoEvents]

(***************************************************************************)
(* handleSearchEvents: the search tool of the query layer.  Its arguments  *)
(* are a record; an absent argument is the empty value, which every test   *)
(* of the handler reads like an absent one, and limit is <<>> or <<n>>.    *)
(***************************************************************************)
\* the text filter comparing the characters as they are
TextMatchesCaseSensitive(ev, text) ==
  includes(ev.data.tool_input_summary, text) \/ includes(ev.data.prompt, text)

\* the callback of the text_search filter
TextMatches(ev, text) ==
  LET search  == toLowerCase(text)
      summary == toLowerCase(ev.data.tool_input_summary)
      prompt  == toLowerCase(ev.data.prompt)
  IN  includes(summary, search) \/ includes(prompt, search)

\* one entry of the results
SearchEntry(ev) ==
  [event |-> ev.event, session_id |-> ev.session_id, ts |-> ev.ts,
   tool |-> ev.data.tool_name,
   detail |-> IF ev.data.tool_input_summary # <<>> THEN ev.data.tool_input_summary
              ELSE ev.data.prompt]

handleSearchEvents(evs, args) ==
  LET bySession == IF args.session_id # <<>> THEN getSessionEvents(evs, args.session_id)
                   ELSE evs
      byType    == IF args.event_type # ""
                   THEN SelectSeq(bySession, LAMBDA ev : ev.event = args.event_type)
                   ELSE bySession
      byTool    == IF args.tool_name # ""
                   THEN SelectSeq(byType, LAMBDA ev : ev.data.tool_name = args.tool_name)
                   ELSE byType
      byText    == IF args.text_search # <<>>
                   THEN SelectSeq(byTool, LAMBDA ev : TextMatches(ev, args.text_search))
                   ELSE byTool
      limit     == IF args.limit = <<>> THEN 50 ELSE args.limit[1]
      cut       == SliceTo(byText, limit)
  IN  [totalMatches |-> Len(byText),
       results      |-> [i \in 1..Len(cut) |-> SearchEntry(cut[i])],
       truncated    |-> Len(byText) > limit]

(***************************************************************************)
(* The settings installer (lib/settings-merge.ts).  A settings object is   *)
(* its non-hooks keys (other), whether it has a hooks key, and the hooks   *)
(* map: a function from the event names present to their values.  The      *)
(* value of an event is an array of matcher groups or something else       *)
(* (isArray false); a group has a matcher and a hooks value, an array of   *)
(* hooks or something else (hooksIsArray false); a hook has a type, a      *)
(* command ("" when it has none), async and timeout.  A hooks config has   *)
(* the same hooks key and map.                                             *)
(***************************************************************************)
Group(matcher, hooks) == [matcher |-> matcher, hooksIsArray |-> TRUE, hooks |-> hooks]

GroupArray(groups) == [isArray |-> TRUE, groups |-> groups]

\* the hooks map with no event
NoHooks == [e \in {} |-> GroupArray(<<>>)]

\* Object.entries visits the keys in insertion order; the events are handled
\* one by one and independently, in this order.
EventNames == <<"Stop", "PreToolUse">>

\* obj[key] = value
SetKey(obj, key, value) ==
  [e \in DOMAIN obj \cup {key} |-> IF e = key THEN value ELSE obj[e]]

\* delete obj[key]
DeleteKey(obj, key) == [e \in DOMAIN obj \ {key} |-> obj[e]]

\* JSON.parse(JSON.stringify(mg)): a copy with the same matcher and hooks, every
\* field of the model being a JSON value
deepClone(mg) ==
  [matcher |-> mg.matcher, hooksIsArray |-> mg.hooksIsArray,
   hooks |-> [i \in 1..Len(mg.hooks) |->
                [type |-> mg.hooks[i].type, command |-> mg.hooks[i].command,
                 async |-> mg.hooks[i].async, timeout |-> mg.hooks[i].timeout]]]

CloneGroups(groups) == [i \in 1..Len(groups) |-> deepClone(groups[i])]

hookMatchesCommand(hook, command) == hook.type = "command" /\ hook.command = command

\* configMatcherGroups[0]?.hooks?.[0]?.command, "" when there is none
TargetCommand(groups) ==
  IF groups # <<>> /\ groups[1].hooksIsArray /\ groups[1].hooks # <<>>
  THEN groups[1].hooks[1].command
  ELSE ""

\* the scan of the existing groups for a hook that runs the target command
AlreadyRegistered(groups, targetCommand) ==
  \E i \in 1..Len(groups) :
    /\ groups[i].hooksIsArray
    /\ \E j \in 1..Len(groups[i].hooks) :
         hookMatchesCommand(groups[i].hooks[j], targetCommand)

\* the config's groups put in the place of the existing ones
ReplaceGroups(existing, added) == added

\* [...existingGroups, ...configMatcherGroups.map(deepClone)]
AppendGroups(existing, added) == existing \o added

\* one pass of the loop of mergeHooks
MergeEvent(hooks, eventName, configValue) ==
  IF ~configValue.isArray \/ configValue.groups = <<>> THEN hooks
  ELSE IF TargetCommand(configValue.groups) = "" THEN hooks
  ELSE IF eventName \notin DOMAIN hooks
    THEN SetKey(hooks, eventName, GroupArray(CloneGroups(configValue.groups)))
  ELSE IF ~hooks[eventName].isArray THEN hooks
  ELSE IF AlreadyRegistered(hooks[eventName].groups, TargetCommand(configValue.groups))
    THEN hooks
  ELSE SetKey(hooks, eventName,
              GroupArray(AppendGroups(hooks[eventName].groups,
                                      CloneGroups(configValue.groups))))

RECURSIVE MergeEvents(_, _, _)
MergeEvents(hooks, configHooks, names) ==
  IF names = <<>> THEN hooks
  ELSE MergeEvents(IF Head(names) \in DOMAIN configHooks
                   THEN MergeEvent(hooks, Head(names), configHooks[Head(names)])
                   ELSE hooks,
                   configHooks, Tail(names))

mergeHooks(s, hooksConfig) ==
  IF ~hooksConfig.hasHooks THEN s
  ELSE [other    |-> s.other,
        hasHooks |-> TRUE,
        hooks    |-> MergeEvents(IF s.hasHooks THEN s.hooks ELSE NoHooks,
                                 hooksConfig.hooks, EventNames)]

\* The loops that collect commandsToRemove: the commands of the config's hooks
\* of type command, from the groups that have a hooks array.
GroupCommands(group) ==
  IF ~group.hooksIsArray THEN {}
  ELSE {group.hooks[j].command :
          j \in {k \in 1..Len(group.hooks) :
                   group.hooks[k].type = "command" /\ group.hooks[k].command # ""}}

CommandsToRemove(hooksConfig) ==
  UNION {IF ~hooksConfig.hooks[e].isArray THEN {}
         ELSE UNION {GroupCommands(hooksConfig.hooks[e].groups[i]) :
                       i \in 1..Len(hooksConfig.hooks[e].groups)} :
         e \in DOMAIN hooksConfig.hooks}

\* the filter removing a hook for its command whatever its type
ShouldRemoveAnyType(hook, commandsToRemove) == hook.command \in commandsToRemove

\* the callback of the filter, negated: the hook goes
ShouldRemove(hook, commandsToRemove) ==
  hook.type = "command" /\ hook.command \in commandsToRemove

\* the loop over the groups of one event: a group without a hooks array stays,
\* the others keep the hooks that are not removed, and stay if any is left
RECURSIVE FilterGroups(_, _)
FilterGroups(groups, commandsToRemove) ==
  IF groups = <<>> THEN <<>>
  ELSE LET group == Head(groups)
           filteredHooks == SelectSeq(group.hooks,
                                      LAMBDA h : ~ShouldRemove(h, commandsToRemove))
           rest == FilterGroups(Tail(groups), commandsToRemove)
       IN  IF ~group.hooksIsArray THEN <<group>> \o rest
           ELSE IF Len(filteredHooks) > 0
             THEN <<[group EXCEPT !.hooks = filteredHooks]>> \o rest
           ELSE rest

RECURSIVE RemoveEvents(_, _, _)
RemoveEvents(hooks, commandsToRemove, names) ==
  IF names = <<>> THEN hooks
  ELSE LET e == Head(names)
           newGroups == FilterGroups(hooks[e].groups, commandsToRemove)
       IN  RemoveEvents(IF e \notin DOMAIN hooks \/ ~hooks[e].isArray THEN hooks
                        ELSE IF Len(newGroups) > 0 THEN SetKey(hooks, e, GroupArray(newGroups))
                        ELSE DeleteKey(hooks, e),
                        commandsToRemove, Tail(names))

removeHooksByConfig(s, hooksConfig) ==
  IF ~hooksConfig.hasHooks \/ ~s.hasHooks THEN s
  ELSE LET hooks == RemoveEvents(s.hooks, CommandsToRemove(hooksConfig), EventNames)
       IN  IF DOMAIN hooks = {}
           THEN [other |-> s.other, hasHooks |-> FALSE, hooks |-> NoHooks]
           ELSE [other |-> s.other, hasHooks |-> TRUE, hooks |-> hooks]

NoSettings == [other |-> "", hasHooks |-> FALSE, hooks |-> NoHooks]
NoConfig == [hasHooks |-> FALSE, hooks |-> NoHooks]

\* the runs of the installer so far, the last operation and the settings it
\* was given
NoRun == [runs |-> 0, op |-> "none", before |-> NoSettings]

(***************************************************************************)
(* saveSettings.  The directory of the settings file holds the file itself *)
(* and the temporary file of a call.  A file is the text it was written    *)
(* from (JSON.stringify of a settings object and a newline, named by the   *)
(* settings) and how much of it is on disk, in chunks of which a whole     *)
(* text has MaxChunks.                                                     *)
(***************************************************************************)
SETTINGS_PATH == "settings.json"

\* the target itself used for the write
TmpPathInPlace(filePath) == filePath

\* path.join(dir, ".settings-merge-<random>.tmp"): a name in the directory of
\* filePath that no other file has
TmpPath(filePath) == ".settings-merge-0000.tmp"

NoFile == [exists |-> FALSE, text |-> "", chunks |-> 0]
WholeFile(text) == [exists |-> TRUE, text |-> text, chunks |-> MaxChunks]

NoSave == [pc |-> "idle", calls |-> 0, data |-> "", previous |-> NoFile]

(***************************************************************************)
(* The legacy viewer (viewer/server.mjs): its own built-in command list and *)
(* its own buildSummary, without the clock.                                *)
(***************************************************************************)
LegacyBuiltinCommands ==
  {
    <<"/","c","l","e","a","r">>,
    <<"/","c","o","m","p","a","c","t">>,
    <<"/","c","o","n","f","i","g">>,
    <<"/","c","o","n","t","e","x","t">>,
    <<"/","c","o","p","y">>,
    <<"/","c","o","s","t">>,
    <<"/","d","e","b","u","g">>,
    <<"/","d","e","s","k","t","o","p">>,
    <<"/","d","o","c","t","o","r">>,
    <<"/","e","x","i","t">>,
    <<"/","e","x","p","o","r","t">>,
    <<"/","h","e","l","p">>,
    <<"/","i","n","i","t">>,
    <<"/","m","c","p">>,
    <<"/","m","e","m","o","r","y">>,
    <<"/","m","o","d","e","l">>,
    <<"/","p","e","r","m","i","s","s","i","o","n","s">>,
    <<"/","p","l","a","n">>,
    <<"/","r","e","n","a","m","e">>,
    <<"/","r","e","s","u","m","e">>,
    <<"/","r","e","w","i","n","d">>,
    <<"/","s","t","a","t","s">>,
    <<"/","s","t","a","t","u","s">>,
    <<"/","s","t","a","t","u","s","l","i","n","e">>,
    <<"/","t","a","s","k","s">>,
    <<"/","t","e","l","e","p","o","r","t">>,
    <<"/","t","h","e","m","e">>,
    <<"/","t","o","d","o","s">>,
    <<"/","u","s","a","g","e">>,
    <<"/","a","d","d","-","d","i","r">>,
    <<"/","a","g","e","n","t","s">>,
    <<"/","b","u","g">>,
    <<"/","h","o","o","k","s">>,
    <<"/","i","d","e">>,
    <<"/","i","n","s","t","a","l","l","-","g","i","t","h","u","b","-","a","p","p">>,
    <<"/","l","o","g","i","n">>,
    <<"/","l","o","g","o","u","t">>,
    <<"/","o","u","t","p","u","t","-","s","t","y","l","e">>,
    <<"/","p","l","u","g","i","n">>,
    <<"/","p","r","-","c","o","m","m","e","n","t","s">>,
    <<"/","p","r","i","v","a","c","y","-","s","e","t","t","i","n","g","s">>,
    <<"/","r","e","l","e","a","s","e","-","n","o","t","e","s">>,
    <<"/","r","e","m","o","t","e","-","e","n","v">>,
    <<"/","r","e","v","i","e","w">>,
    <<"/","s","a","n","d","b","o","x">>,
    <<"/","s","e","c","u","r","i","t","y","-","r","e","v","i","e","w">>,
    <<"/","t","e","r","m","i","n","a","l","-","s","e","t","u","p">>,
    <<"/","v","i","m">>,
    <<"/","f","a","s","t">>,
    <<"/","s","l","o","w">>,
    <<"/","l","i","s","t","e","n">>
  }

legacyIsBuiltinCommand(prompt) ==
  LET cmd == toLowerCase(FirstToken(prompt))
  IN  cmd \in LegacyBuiltinCommands

LegacyNewSession(sid, ev) ==
  [id |-> sid, cwd |-> ev.cwd, eventCount |-> 0, firstTs |-> ev.ts, lastTs |-> ev.ts,
   hasInterrupt |-> FALSE, orphanCount |-> 0, hasSessionStart |-> FALSE,
   hasSessionEnd |-> FALSE, isLive |-> FALSE]

\* The body of the loop over the events (lines 70-126).
LegacyStep(st, ev) ==
  LET sid       == IF ev.session_id = <<>> THEN UNKNOWN ELSE ev.session_id
      sessions  == IF \E i \in 1..Len(st.sessions) : st.sessions[i].id = sid
                   THEN st.sessions
                   ELSE Append(st.sessions, LegacyNewSession(sid, ev))
      k         == CHOOSE i \in 1..Len(sessions) : sessions[i].id = sid
      toolName  == ev.data.tool_name
      toolUseId == ev.data.tool_use_id
      prompt    == trim(ev.data.prompt)
      stopped   == ev.event = "Stop" /\ ev.data.stop_hook_active
      bySkill   == IF ev.event = "PreToolUse" /\ toolName = "Skill"
                   THEN MapIncrement(st.skillCounts,
                          IF ev.data.tool_input_summary = <<>> THEN UNKNOWN
                          ELSE ev.data.tool_input_summary)
                   ELSE st.skillCounts
      bySlash   == IF /\ ev.event = "UserPromptSubmit"
                      /\ startsWith(prompt, <<"/">>)
                      /\ ~legacyIsBuiltinCommand(prompt)
                   THEN MapIncrement(bySkill, SliceFromOne(FirstToken(prompt)))
                   ELSE bySkill
  IN  [sessions    |-> [sessions EXCEPT ![k] =
                          [@ EXCEPT
                             !.eventCount = @ + 1,
                             !.firstTs = IF StrLess(ev.ts, @) THEN ev.ts ELSE @,
                             !.lastTs = IF StrLess(@, ev.ts) THEN ev.ts ELSE @,
                             !.hasSessionStart = @ \/ ev.event = "SessionStart",
                             !.hasSessionEnd = @ \/ ev.event = "SessionEnd",
                             !.hasInterrupt = @ \/ stopped]],
       toolCounts  |-> IF toolName # "" THEN MapIncrement(st.toolCounts, toolName)
                       ELSE st.toolCounts,
       skillCounts |-> bySlash,
       preToolIds  |-> IF ev.event = "PreToolUse" /\ toolUseId # ""
                       THEN SetAdd(st.preToolIds, toolUseId) ELSE st.preToolIds,
       postToolIds |-> IF ev.event \in {"PostToolUse", "PostToolUseFailure"} /\ toolUseId # ""
                       THEN SetAdd(st.postToolIds, toolUseId) ELSE st.postToolIds,
       interrupts  |-> IF stopped THEN Append(st.interrupts, ev) ELSE st.interrupts]

RECURSIVE LegacyPass(_, _, _)
LegacyPass(evs, i, st) ==
  IF i > Len(evs) THEN st ELSE LegacyPass(evs, i + 1, LegacyStep(st, evs[i]))

\* the liveness with the SessionEnd left out of it
LegacyLiveIgnoringEnd(sess) == sess.hasSessionStart

\* Lines 128-131: live means started and not ended, whatever the time.
LegacyLive(sess) == sess.hasSessionStart /\ ~sess.hasSessionEnd

\* Lines 139-145: the orphan counts of the sessions.
RECURSIVE LegacyOrphanPass(_, _, _, _)
LegacyOrphanPass(evs, i, sessions, orphanIds) ==
  IF i > Len(evs) THEN sessions
  ELSE LET ev  == evs[i]
           sid == IF ev.session_id = <<>> THEN UNKNOWN ELSE ev.session_id
           hit == /\ ev.event = "PreToolUse" /\ ev.data.tool_use_id # ""
                  /\ SetHas(orphanIds, ev.data.tool_use_id)
                  /\ \E k \in 1..Len(sessions) : sessions[k].id = sid
       IN  LegacyOrphanPass(evs, i + 1,
             IF hit
             THEN [sessions EXCEPT
                     ![CHOOSE k \in 1..Len(sessions) : sessions[k].id = sid].orphanCount = @ + 1]
             ELSE sessions,
             orphanIds)

legacyBuildSummary(evs) ==
  LET st         == LegacyPass(evs, 1, EmptyPass)
      classified == [i \in 1..Len(st.sessions) |->
                       [st.sessions[i] EXCEPT !.isLive = LegacyLive(st.sessions[i])]]
      orphanIds  == SelectSeq(st.preToolIds, LAMBDA id : ~SetHas(st.postToolIds, id))
      sessions   == LegacyOrphanPass(evs, 1, classified, orphanIds)
      toolUsage  == ArraySort("count", st.toolCounts)
      skillUsage == ArraySort("count", st.skillCounts)
  IN  [totalEvents      |-> Len(evs),
       sessionCount     |-> Len(sessions),
       liveSessionCount |-> Cardinality({i \in 1..Len(sessions) : sessions[i].isLive}),
       toolCount        |-> Len(toolUsage),
       interruptCount   |-> Len(st.interrupts),
       orphanCount      |-> Len(orphanIds),
       sessions         |-> ArraySort("lastTs", sessions),
       toolUsage        |-> toolUsage,
       skillUsage       |-> skillUsage,
       orphanIds        |-> orphanIds]

(***************************************************************************)
(* The hook scripts on the log directory: event-logger.sh appends a line   *)
(* to hook-events.jsonl and, on SessionStart, starts rotate-logs.sh in the *)
(* background. Both name the file $LOG_DIR/hook-events.jsonl; LOG_DIR is   *)
(* one directory here, as in the tests. A file name leads to an inode, an  *)
(* open descriptor keeps its inode whatever happens to the name.           *)
(***************************************************************************)
TODAY == "today"
YESTERDAY == "yesterday"

\* a line of the log: the run that wrote it (0 and below: earlier runs), and the date of its ts
LogLine(id, date) == [id |-> id, date |-> date]

\* the line an earlier run of the hook left in the log, and one already archived
OldLine == LogLine(0, YESTERDAY)
ArchivedLine == LogLine(-1, YESTERDAY)

\* LOG_FILE and ARCHIVE: the inode of each name (0: no such file), the content
\* of each inode, and every line appended so far
EmptyDir == [log |-> 0, archive |-> 0, inodes |-> <<>>, appended |-> {}]

\* the content of the file of that name, empty when there is none
Content(dir, name) == IF dir[name] = 0 THEN <<>> ELSE dir.inodes[dir[name]]

\* open(name, O_CREAT): the file is created empty when the name is free
CreateIfAbsent(dir, name) ==
  IF dir[name] # 0 THEN dir
  ELSE [dir EXCEPT ![name] = Len(dir.inodes) + 1, !.inodes = Append(@, <<>>)]

\* a hook process and the rotation it may start: nothing has run yet
IdleHook ==
  [pc |-> "idle", event |-> "", fd |-> 0,
   rotate |-> "idle", FIRST_DATE |-> "", archiveFd |-> 0, buffer |-> <<>>]

(***************************************************************************)
(* The chat endpoint: one request, the conversation it starts and what it  *)
(* writes to the response.                                                 *)
(***************************************************************************)
NoChat ==
  [pc |-> "idle", body |-> <<>>, status |-> 0, error |-> "", prompt |-> JNull,
   queryStarted |-> FALSE, hasContent |-> FALSE, aborted |-> FALSE, yielded |-> 0,
   written |-> <<>>, ended |-> FALSE]

\* res.write(`data: ${JSON.stringify({ [key]: value })}\n\n`): the event, its
\* value kept as the pieces the template joins; res.write("data: [DONE]\n\n")
\* is the event of kind "done"
SseData(key, value) == [kind |-> key, value |-> value]

\* The blocks of an assistant message (lines 146-155): a text block with a text
\* sets hasContent and is written; a tool_use block with a name is written
\* under its name without the mcp__hook-logger__ prefix.
RECURSIVE WriteBlocks(_, _)
WriteBlocks(st, blocks) ==
  IF blocks = <<>> THEN st
  ELSE LET block == Head(blocks)
           toolName == IF block.name # <<>> /\ Head(block.name) = "mcp__hook-logger__"
                       THEN Tail(block.name) ELSE block.name
           next == IF block.type = "text" /\ block.text # ""
                   THEN [st EXCEPT !.hasContent = TRUE,
                                   !.written = Append(@, SseData("text", <<block.text>>))]
                   ELSE IF block.type = "tool_use" /\ block.name # <<>>
                   THEN [st EXCEPT !.written = Append(@, SseData("tool_use", toolName))]
                   ELSE st
       IN  WriteBlocks(next, Tail(blocks))

(***************************************************************************)
(* Inputs: the events a caller can hand to the engine.                     *)
(***************************************************************************)
S1  == <<"s","1">>
S12 == <<"s","1","2">>
S2  == <<"s","2">>
S3  == <<"s","3">>

\* 00:09:00.000 and 00:10:00.000 of the same hour
TA == <<0, 9, 0>>
TB == <<1, 0, 0>>

COMMIT == <<"c","o","m","m","i","t">>

NoData ==
  [tool_name |-> "", tool_use_id |-> "", tool_input_summary |-> <<>>, prompt |-> <<>>,
   stop_hook_active |-> FALSE, is_interrupt |-> FALSE]

Event(type, sid, ts, data) ==
  [event |-> type, session_id |-> sid, ts |-> ts, cwd |-> "", data |-> data]

ToolData(name, id, summary) ==
  [NoData EXCEPT !.tool_name = name, !.tool_use_id = id, !.tool_input_summary = summary]

PromptData(prompt) == [NoData EXCEPT !.prompt = prompt]

StopData(active) == [NoData EXCEPT !.stop_hook_active = active]

\* sessions with, without and with the literal "unknown" session_id.
SessionInputs ==
  {Event(t, sid, TA, NoData) : t \in {"SessionStart", "Notification"},
                               sid \in {<<>>, UNKNOWN, S1, S12}}

\* tool calls opened and closed, in and across sessions.
OrphanInputs ==
  {Event(t, sid, TA, ToolData("Bash", id, <<>>)) :
     t \in {"PreToolUse", "PostToolUse", "PostToolUseFailure"},
     sid \in {S1, S2}, id \in {"t1", "t2"}}
  \cup {Event("PreToolUse", S1, TA, ToolData("Bash", "", <<>>)),
        Event("PostToolUse", S1, TA, ToolData("Bash", "", <<>>)),
        Event("Notification", S1, TA, ToolData("Bash", "t1", <<>>)),
        Event("PreToolUse", <<>>, TA, ToolData("Bash", "t1", <<>>))}

\* session lifecycles at two timestamps.
LivenessInputs ==
  {Event(t, sid, ts, NoData) : t \in {"SessionStart", "SessionEnd", "Notification"},
                               sid \in {S1, S2}, ts \in {TA, TB}}

\* The clock readings: five minutes after TA and after TB, and one millisecond later.
NowValues == {DateGetTime(TA) + 300000, DateGetTime(TA) + 300001,
              DateGetTime(TB) + 300000, DateGetTime(TB) + 300001}

\* prompts and Skill tool events.
Prompts ==
  { <<"/","c","o","m","m","i","t"," ","x">>,          \* "/commit x"
    <<" ","/","c","o","m","m","i","t","\n">>,         \* " /commit\n"
    <<"/","h","e","l","p">>,                          \* "/help"
    <<"/","H","e","l","p","\t","x">>,                 \* "/Help\tx"
    <<"/","h","e","l","p","x">>,                      \* "/helpx"
    <<"c","o","m","m","i","t">>,                      \* "commit"
    <<"/">> }                                         \* "/"

SkillInputs ==
  {Event("UserPromptSubmit", S1, TA, PromptData(p)) : p \in Prompts}
  \cup {Event("PreToolUse", S1, TA, ToolData("Skill", "t1", s)) : s \in {<<>>, COMMIT, UNKNOWN}}
  \cup {Event("PreToolUse", S1, TA, ToolData("Read", "t1", COMMIT)),
        Event("PostToolUse", S1, TA, ToolData("Skill", "t1", COMMIT)),
        Event("Notification", S1, TA, PromptData(<<"/","c","o","m","m","i","t"," ","x">>))}

\* tool names on events of several types.
ToolInputs ==
  {Event(t, S1, TA, ToolData(n, "t1", <<>>)) :
     t \in {"PreToolUse", "PostToolUse", "PostToolUseFailure", "Notification"},
     n \in {"", "Read", "Bash"}}

\* Stop events and the other stop-like signals.
InterruptInputs ==
  {Event("Stop", sid, TA, StopData(a)) : sid \in {S1, S2}, a \in BOOLEAN}
  \cup {Event("PostToolUseFailure", S2, TA, [ToolData("Bash", "t1", <<>>) EXCEPT !.is_interrupt = TRUE]),
        Event("SubagentStop", S2, TA, StopData(TRUE)),
        Event("Notification", S1, TA, NoData)}

\* tool and skill events of sessions whose ids share prefixes.
DetailInputs ==
  {Event("PreToolUse", sid, TA, ToolData(n, "t1", COMMIT)) :
     sid \in {<<>>, S1, S12, S2}, n \in {"Read", "Skill"}}
  \cup {Event("PostToolUse", sid, TA, ToolData("Bash", "t1", <<>>)) : sid \in {<<>>, S1, S12, S2}}
  \cup {Event("UserPromptSubmit", sid, TA, PromptData(<<"/","c","o","m","m","i","t"," ","x">>)) :
          sid \in {<<>>, S1, S12, S2}}

\* Session arguments of the lookups: exact ids, prefixes, the empty string, no match.
SessionArgs == {<<>>, <<"s">>, S1, S12, S2, S3, UNKNOWN}

Inputs ==
  SessionInputs \cup OrphanInputs \cup LivenessInputs \cup SkillInputs \cup ToolInputs
    \cup InterruptInputs \cup DetailInputs

\* sequences over S of length at most n
SeqsUpTo(S, n) == UNION {[1..k -> S] : k \in 0..n}

\* File names a caller can ask for: a prefix, up to MaxMiddle characters and a
\* suffix, with and without the separators, the dots and the characters the
\* pattern has no place for.
MiddleChars == {"a", "Z", "2", "_", ".", "-", "/", "\\", " ", "%"}

FileNames ==
  {p \o m \o s :
     p \in {HOOK_EVENTS, <<"x">> \o HOOK_EVENTS, <<>>},
     m \in SeqsUpTo(MiddleChars, MaxMiddle),
     s \in {JSONL, JSONL \o <<"x">>, JSONL \o <<"\n">>, <<".","j","s","o","n">>}}

\* the file parameter of a request: absent or empty, or a name
FileParams == FileNames \cup {<<>>}

\* Texts of log lines: compact and padded objects, a bare number, a cut-off
\* object, an object followed by garbage, an empty and a whitespace-only line.
ObjE1 == <<"{", "\"", "e", "\"", ":", "1", "}">>
ObjPadded == <<" ", "{", " ", "\"", "s", "\"", " ", ":", " ", "{", "}", " ", "}", " ">>
LineTexts ==
  {ObjE1, ObjPadded, <<"7">>,
   SubSeq(ObjE1, 1, Len(ObjE1) - 1), ObjE1 \o <<"#">>,
   <<>>, <<" ", "\t">>}

\* what one write leaves in the file: a text, with or without its newline
Fragments == {t \o nl : t \in LineTexts, nl \in {<<>>, <<"\n">>}}

RECURSIVE Concat(_)
Concat(seqs) == IF seqs = <<>> THEN <<>> ELSE Head(seqs) \o Concat(Tail(seqs))

\* the log files a reader can meet: none, or up to MaxFragments fragments
LogFileInputs ==
  {AbsentFile}
  \cup {[exists |-> TRUE, content |-> Concat(fs)] : fs \in SeqsUpTo(Fragments, MaxFragments)}

\* The lines the hook appends: the compact one-line objects jq -c prints.
ObjE12 == <<"{", "\"", "e", "\"", ":", "1", "2", "}">>
ObjNested == <<"{", "\"", "e", "\"", ":", "{", "\"", "s", "\"", ":", "1", "}", "}">>
WriterLines == {ObjE1, ObjE12, ObjNested}

\* the longest append: a line and its newline
MaxLineLength == Len(ObjNested) + 1

\* Events to search: tool events and prompts of sessions whose ids share a
\* prefix, with the searched text in the summary, in the prompt, in neither,
\* and in another letter case.
GIT == <<"G","i","t">>

SearchInputs ==
  {Event("PreToolUse", sid, TA, ToolData("Bash", "t1", GIT)) : sid \in {<<>>, S1, S12, S2}}
  \cup {Event("PostToolUse", S1, TA, ToolData("Bash", "t1", GIT)),
        Event("PreToolUse", S1, TB, ToolData("Read", "t2", GIT)),
        Event("PreToolUse", S1, TB, ToolData("Bash", "t3", <<"t","i","g">>)),
        Event("PreToolUse", S1, TB,
              [ToolData("Bash", "t4", <<"x">>) EXCEPT !.prompt = <<"a","G","I","T">>]),
        Event("UserPromptSubmit", S1, TB, PromptData(<<"g","i","t">>))}

SearchArgs ==
  [session_id : {<<>>, S1, S2}, event_type : {"", "PreToolUse"}, tool_name : {"", "Bash"},
   text_search : {<<>>, <<"g","I">>}, limit : {<<>>, <<0>>, <<1>>}]

\* 00:11:00.000 of the same hour
TC == <<1, 1, 0>>

\* Three sessions started and last active at different times, one of them
\* ended; handed over in any order.
ListingInputs ==
  {Event("SessionStart", S1, TA, NoData), Event("SessionStart", S2, TB, NoData),
   Event("SessionStart", S3, TC, NoData), Event("Notification", S1, TC, NoData),
   Event("Notification", S2, TB, NoData), Event("SessionEnd", S2, TC, NoData)}

ListingArgs ==
  [status : {"", "all", "live", "stale", "ended"}, since : {<<>>, TB},
   limit : {<<>>, <<1>>}]

\* Hooks: the logger's command, another command, a hook of another type that
\* carries the logger's command, and a command the logger's is a part of.
LOGGER == "event-logger.sh"
HookL == [type |-> "command", command |-> LOGGER, async |-> TRUE, timeout |-> 5]
HookO == [type |-> "command", command |-> "other.sh", async |-> FALSE, timeout |-> 0]
HookP == [type |-> "prompt", command |-> LOGGER, async |-> FALSE, timeout |-> 0]
HookV == [type |-> "command", command |-> "event-logger.sh -v", async |-> FALSE, timeout |-> 0]

GroupL == Group("", <<HookL>>)
GroupO == Group("Bash", <<HookO>>)
GroupOL == Group("", <<HookO, HookL>>)
GroupP == Group("", <<HookP>>)
GroupEmpty == Group("", <<>>)

\* matcher groups: with one hook or two, with none, and without a hooks array
GroupInputs ==
  {GroupL, GroupO, GroupOL, GroupP, Group("", <<HookV>>), GroupEmpty,
   [matcher |-> "", hooksIsArray |-> FALSE, hooks |-> <<>>]}

NotAnArray == [isArray |-> FALSE, groups |-> <<>>]

EventValues ==
  {GroupArray(gs) : gs \in SeqsUpTo(GroupInputs, MaxGroups)} \cup {NotAnArray}

\* settings: without a hooks key, with an empty hooks map, with Stop alone and
\* with Stop and a PreToolUse that already runs the logger
SettingsInputs ==
  {[NoSettings EXCEPT !.other = "theme"]}
  \cup {[other |-> "theme", hasHooks |-> TRUE, hooks |-> h] :
          h \in {NoHooks}
                \cup {SetKey(NoHooks, "Stop", v) : v \in EventValues}
                \cup {SetKey(SetKey(NoHooks, "Stop", v), "PreToolUse", GroupArray(<<GroupL>>)) :
                        v \in EventValues}}

\* hooks configs: the logger's own, for one event and for two; one whose first
\* hook is not of type command; one with two commands; one with two groups;
\* and the ones mergeHooks skips
ConfigInputs ==
  {NoConfig}
  \cup {[hasHooks |-> TRUE, hooks |-> SetKey(NoHooks, "Stop", v)] :
          v \in {GroupArray(<<GroupL>>), GroupArray(<<GroupP>>), GroupArray(<<GroupOL>>),
                 GroupArray(<<GroupL, GroupO>>), GroupArray(<<GroupEmpty>>),
                 GroupArray(<<>>), NotAnArray}}
  \cup {[hasHooks |-> TRUE,
         hooks |-> SetKey(SetKey(NoHooks, "Stop", GroupArray(<<GroupL>>)),
                          "PreToolUse", GroupArray(<<GroupL>>))]}

\* the settings directory before the first save: absent, empty, or holding a
\* settings file
DiskInputs ==
  {[dir |-> d, files |-> [p \in {SETTINGS_PATH, TmpPath(SETTINGS_PATH)} |->
                            IF p = SETTINGS_PATH THEN f ELSE NoFile]] :
     <<d, f>> \in {<<FALSE, NoFile>>, <<TRUE, NoFile>>, <<TRUE, WholeFile("s0")>>}}

\* the settings handed to saveSettings
SaveInputs == {"s1", "s2"}

\* events of two sessions with no working directory and with one of two
CwdInputs ==
  {[Event("Notification", sid, TA, NoData) EXCEPT !.cwd = c] :
     sid \in {S1, S2}, c \in {"", "/a", "/b"}}

\* prompts, tool events and bare events of two sessions at two timestamps.
EntryInputs ==
  {Event("PreToolUse", sid, ts, ToolData("Read", "t1", COMMIT)) : sid \in {S1, S2}, ts \in {TA, TB}}
  \cup {Event("UserPromptSubmit", sid, ts, PromptData(<<"h","i">>)) : sid \in {S1, S2}, ts \in {TA, TB}}
  \cup {Event("Notification", sid, ts, NoData) : sid \in {S1, S2}, ts \in {TA, TB}}

\* a lifecycle, a tool call with and without its completion, a skill use by tool
\* and by prompt, an interrupt and a working directory, over three sessions.
LegacyInputs ==
  {Event("SessionStart", S1, TA, NoData),
   Event("SessionEnd", S1, TB, NoData),
   [Event("SessionStart", S2, TB, NoData) EXCEPT !.cwd = "/a"],
   Event("PreToolUse", S1, TA, ToolData("Bash", "t1", <<>>)),
   Event("PostToolUseFailure", S2, TB, ToolData("Bash", "t1", <<>>)),
   Event("PreToolUse", <<>>, TA, ToolData("Skill", "t2", COMMIT)),
   Event("UserPromptSubmit", S2, TB, PromptData(<<"/","c","o","m","m","i","t"," ","x">>)),
   Event("Stop", S1, TB, StopData(TRUE))}

\* the hook events of the run: one that starts a rotation and one that does not
HookEvents == {"SessionStart", "Stop"}

\* the log directory before the run: no log, an empty log, a log that begins
\* yesterday or today, with and without an archive of yesterday
LogDirInputs ==
  {EmptyDir,
   [EmptyDir EXCEPT !.log = 1, !.inodes = <<<<>>>>],
   [EmptyDir EXCEPT !.log = 1, !.inodes = <<<<OldLine>>>>, !.appended = {OldLine}],
   [EmptyDir EXCEPT !.log = 1, !.inodes = <<<<LogLine(0, TODAY)>>>>,
                    !.appended = {LogLine(0, TODAY)}],
   [EmptyDir EXCEPT !.log = 1, !.archive = 2, !.inodes = <<<<OldLine>>, <<ArchivedLine>>>>,
                    !.appended = {OldLine, ArchivedLine}]}

\* Request bodies: a message, an empty message, no message, null, a cut-off
\* object and nothing at all.
BodyHi ==
  <<"{", "\"", "m","e","s","s","a","g","e", "\"", ":", "\"", "h", "i", "\"", "}">>
BodyPadded ==
  <<" ", "{", "\"", "m","e","s","s","a","g","e", "\"", " ", ":", " ", "\"", "?", "\"", "}", "\n">>
BodyEmptyMessage ==
  <<"{", "\"", "m","e","s","s","a","g","e", "\"", ":", "\"", "\"", "}">>
BodyNoMessage == <<"{", "\"", "e", "\"", ":", "1", "}">>
ChatBodies ==
  {BodyHi, BodyPadded, BodyEmptyMessage, BodyNoMessage, <<"n","u","l","l">>,
   SubSeq(BodyHi, 1, Len(BodyHi) - 1), <<>>}

\* the bodies that are valid JSON with a non-empty message
ValidChatBodies == {BodyHi, BodyPadded}

\* Messages of a conversation: assistant messages with a text, a tool use, both,
\* an empty text or no content; results that succeed with and without a text or
\* fail with and without errors; a message of another type.
ChatMsg(type, content, subtype, result, errors) ==
  [type |-> type, content |-> content, subtype |-> subtype, result |-> result,
   errors |-> errors]
TextBlock(text) == [type |-> "text", text |-> text, name |-> <<>>]
ToolUseBlock(name) == [type |-> "tool_use", text |-> "", name |-> name]
ChatMessages ==
  {ChatMsg("assistant", content, "", "", <<>>) :
     content \in {<<TextBlock("hi")>>, <<TextBlock("")>>, <<>>,
                  <<ToolUseBlock(<<"mcp__hook-logger__", "list_sessions">>)>>,
                  <<ToolUseBlock(<<"Read">>), TextBlock("hi")>>}}
  \cup {ChatMsg("result", <<>>, "success", r, <<>>) : r \in {"", "res"}}
  \cup {ChatMsg("result", <<>>, "error", "", e) : e \in {<<>>, <<"boom", "bang">>}}
  \cup {ChatMsg("system", <<>>, "init", "", <<>>)}

\* what the conversation can throw
ChatErrors == {"API connection failed"}

(***************************************************************************)
(* State machine: the event sequence grows by one event at a time and the  *)
(* clock advances; every function above is evaluated on each state.        *)
(***************************************************************************)
InitEngine ==
  /\ events = <<>>
  /\ now = DateGetTime(TA) + 300000

InitServer == http = NoRequest

InitLog ==
  /\ logFile = AbsentFile
  /\ writer = IdleWriter
  /\ reader = IdleReader

InitSettings ==
  /\ settings = NoSettings
  /\ config = NoConfig
  /\ installer = NoRun

InitSave ==
  /\ disk = [dir |-> FALSE,
             files |-> [p \in {SETTINGS_PATH, TmpPath(SETTINGS_PATH)} |-> NoFile]]
  /\ save = NoSave

InitHooks ==
  /\ logDir = EmptyDir
  /\ hookProcs = [l \in 1..MaxLoggers |-> IdleHook]

InitChat == chat = NoChat

Init ==
  /\ InitEngine /\ InitServer /\ InitLog /\ InitSettings /\ InitSave
  /\ InitHooks /\ InitChat

AppendEvent(ev) ==
  /\ Len(events) < MaxEvents
  /\ events' = Append(events, ev)
  /\ UNCHANGED <<now, serverVars, logVars, settingsVars, saveVars, rotateVars, chatVars>>

Tick ==
  /\ \E n \in NowValues : n > now /\ now' = n
  /\ UNCHANGED <<events, serverVars, logVars, settingsVars, saveVars, rotateVars, chatVars>>

NextSessions == \E ev \in SessionInputs : AppendEvent(ev)
SpecSessions == Init /\ [][NextSessions]_vars

NextOrphans == \E ev \in OrphanInputs : AppendEvent(ev)
SpecOrphans == Init /\ [][NextOrphans]_vars

NextLiveness == (\E ev \in LivenessInputs : AppendEvent(ev)) \/ Tick
SpecLiveness == Init /\ [][NextLiveness]_vars

NextSkills == \E ev \in SkillInputs : AppendEvent(ev)
SpecSkills == Init /\ [][NextSkills]_vars

NextTools == \E ev \in ToolInputs : AppendEvent(ev)
SpecTools == Init /\ [][NextTools]_vars

NextInterrupts == \E ev \in InterruptInputs : AppendEvent(ev)
SpecInterrupts == Init /\ [][NextInterrupts]_vars

NextDetail == \E ev \in DetailInputs : AppendEvent(ev)
SpecDetail == Init /\ [][NextDetail]_vars


(***************************************************************************)
(* The viewer server answering requests for a caller-chosen log file.      *)
(***************************************************************************)
\* The server takes one request at a time from a connection; the response stays
\* on the connection until the caller has taken it (res.end).
ApiEvents(param) ==
  /\ http = NoRequest
  /\ http' = ServeLogRequest("/api/events", param)
  /\ UNCHANGED <<engineVars, logVars, settingsVars, saveVars, rotateVars, chatVars>>

ApiSummary(param) ==
  /\ http = NoRequest
  /\ http' = ServeLogRequest("/api/summary", param)
  /\ UNCHANGED <<engineVars, logVars, settingsVars, saveVars, rotateVars, chatVars>>

ResponseDelivered ==
  /\ http # NoRequest
  /\ http' = NoRequest
  /\ UNCHANGED <<engineVars, logVars, settingsVars, saveVars, rotateVars, chatVars>>

NextFiles ==
  \/ http = NoRequest /\ \E param \in FileParams : ApiEvents(param)
  \/ http = NoRequest /\ \E param \in FileParams : ApiSummary(param)
  \/ ResponseDelivered
SpecFiles == Init /\ [][NextFiles]_vars


(***************************************************************************)
(* The log reader, on any file.                                            *)
(***************************************************************************)
\* existsSync: an absent file ends the call with no events
ReadBegin ==
  /\ reader.pc = "idle"
  /\ reader' = IF logFile.exists
               THEN [reader EXCEPT !.pc = "reading", !.returned = FALSE,
                                   !.doneAtStart = writer.done]
               ELSE [pc |-> "idle", returned |-> TRUE, doneAtStart |-> writer.done,
                     snapshot |-> logFile, complete |-> 0, result |-> NoEvents]
  /\ UNCHANGED <<engineVars, serverVars, logFile, writer, settingsVars, saveVars, rotateVars, chatVars>>

\* readFileSync and the loop over the lines
ReadEnd ==
  /\ reader.pc = "reading"
  /\ reader' = [reader EXCEPT !.pc = "idle", !.returned = TRUE,
                              !.snapshot = logFile,
                              !.complete = IF Len(writer.pending) > 1
                                           THEN Len(writer.lines) - 1
                                           ELSE Len(writer.lines),
                              !.result = ParseContent(logFile.content)]
  /\ UNCHANGED <<engineVars, serverVars, logFile, writer, settingsVars, saveVars, rotateVars, chatVars>>

InitParse ==
  /\ InitEngine /\ InitServer /\ InitSettings /\ InitSave /\ InitHooks /\ InitChat
  /\ logFile \in LogFileInputs
  /\ writer = IdleWriter
  /\ reader = IdleReader

NextParse == ReadBegin \/ ReadEnd
SpecParse == InitParse /\ [][NextParse]_vars


(***************************************************************************)
(* The hook appending to the log while the viewer reads it.                *)
(***************************************************************************)
\* >> "$LOG_FILE": the shell opens the file for appending, creating it, and jq
\* has the line and its newline to write.
WriterBegin(line) ==
  /\ writer.pending = <<>>
  /\ Len(writer.lines) < MaxAppends
  /\ logFile' = [logFile EXCEPT !.exists = TRUE]
  /\ writer' = [writer EXCEPT !.pending = line \o <<"\n">>, !.lines = Append(@, line)]
  /\ UNCHANGED <<engineVars, serverVars, reader, settingsVars, saveVars, rotateVars, chatVars>>

\* the next k characters of the append reach the file
WriterStep(k) ==
  /\ k \in 1..Len(writer.pending)
  /\ logFile' = [logFile EXCEPT !.content = @ \o SubSeq(writer.pending, 1, k)]
  /\ writer' = [writer EXCEPT !.pending = SubSeq(@, k + 1, Len(@)),
                              !.done = IF k = Len(writer.pending) THEN @ + 1 ELSE @]
  /\ UNCHANGED <<engineVars, serverVars, reader, settingsVars, saveVars, rotateVars, chatVars>>

NextAppend ==
  \/ \E line \in WriterLines : WriterBegin(line)
  \/ \E k \in 1..MaxLineLength : WriterStep(k)
  \/ ReadBegin
  \/ ReadEnd
SpecAppend == Init /\ [][NextAppend]_vars


NextSearch == \E ev \in SearchInputs : AppendEvent(ev)
SpecSearch == Init /\ [][NextSearch]_vars


NextListing == (\E ev \in ListingInputs : AppendEvent(ev)) \/ Tick
SpecListing == Init /\ [][NextListing]_vars


(***************************************************************************)
(* The installer: install merges the config into the settings, uninstall   *)
(* removes it.                                                             *)
(***************************************************************************)
Install ==
  /\ installer.runs < MaxRuns
  /\ settings' = mergeHooks(settings, config)
  /\ installer' = [runs |-> installer.runs + 1, op |-> "install", before |-> settings]
  /\ UNCHANGED <<engineVars, serverVars, logVars, config, saveVars, rotateVars, chatVars>>

Uninstall ==
  /\ installer.runs < MaxRuns
  /\ settings' = removeHooksByConfig(settings, config)
  /\ installer' = [runs |-> installer.runs + 1, op |-> "uninstall", before |-> settings]
  /\ UNCHANGED <<engineVars, serverVars, logVars, config, saveVars, rotateVars, chatVars>>

InitInstaller ==
  /\ InitEngine /\ InitServer /\ InitLog /\ InitSave /\ InitHooks /\ InitChat
  /\ settings \in SettingsInputs
  /\ config \in ConfigInputs
  /\ installer = NoRun

NextInstaller == Install \/ Uninstall
SpecInstaller == InitInstaller /\ [][NextInstaller]_vars


(***************************************************************************)
(* saveSettings, step by step, and the process dying between two steps.    *)
(***************************************************************************)
\* the call begins; previous records what the file at the path holds
SaveBegin(data) ==
  /\ save.pc \in {"idle", "done", "crashed"}
  /\ save.calls < MaxSaves
  /\ save' = [pc |-> "mkdir", calls |-> save.calls + 1, data |-> data,
              previous |-> disk.files[SETTINGS_PATH]]
  /\ UNCHANGED <<engineVars, serverVars, logVars, settingsVars, disk, rotateVars, chatVars>>

\* if (!fs.existsSync(dir)) fs.mkdirSync(dir, { recursive: true })
MakeDir ==
  /\ save.pc = "mkdir"
  /\ disk' = [disk EXCEPT !.dir = TRUE]
  /\ save' = [save EXCEPT !.pc = "open"]
  /\ UNCHANGED <<engineVars, serverVars, logVars, settingsVars, rotateVars, chatVars>>

\* writeFileSync opens the temporary file, creating it empty
OpenTmp ==
  /\ save.pc = "open"
  /\ disk' = [disk EXCEPT !.files[TmpPath(SETTINGS_PATH)] =
                            [exists |-> TRUE, text |-> save.data, chunks |-> 0]]
  /\ save' = [save EXCEPT !.pc = "write"]
  /\ UNCHANGED <<engineVars, serverVars, logVars, settingsVars, rotateVars, chatVars>>

\* writeFileSync writes the next k chunks of the text
WriteTmp(k) ==
  /\ save.pc = "write"
  /\ k \in 1..(MaxChunks - disk.files[TmpPath(SETTINGS_PATH)].chunks)
  /\ disk' = [disk EXCEPT !.files[TmpPath(SETTINGS_PATH)].chunks = @ + k]
  /\ save' = [save EXCEPT !.pc = IF disk.files[TmpPath(SETTINGS_PATH)].chunks + k = MaxChunks
                                  THEN "rename" ELSE "write"]
  /\ UNCHANGED <<engineVars, serverVars, logVars, settingsVars, rotateVars, chatVars>>

\* fs.renameSync(tmpPath, filePath): the path names the temporary file's
\* content in one step, and the temporary name is gone
Rename ==
  /\ save.pc = "rename"
  /\ disk' = [disk EXCEPT !.files =
                [p \in DOMAIN disk.files |->
                   IF p = SETTINGS_PATH THEN disk.files[TmpPath(SETTINGS_PATH)]
                   ELSE NoFile]]
  /\ save' = [save EXCEPT !.pc = "done"]
  /\ UNCHANGED <<engineVars, serverVars, logVars, settingsVars, rotateVars, chatVars>>

\* the process dies before its next step
Crash ==
  /\ save.pc \in {"mkdir", "open", "write", "rename"}
  /\ save' = [save EXCEPT !.pc = "crashed"]
  /\ UNCHANGED <<engineVars, serverVars, logVars, settingsVars, disk, rotateVars, chatVars>>

InitSaving ==
  /\ InitEngine /\ InitServer /\ InitLog /\ InitSettings /\ InitHooks /\ InitChat
  /\ disk \in DiskInputs
  /\ save = NoSave

NextSaving ==
  \/ \E data \in SaveInputs : SaveBegin(data)
  \/ MakeDir
  \/ OpenTmp
  \/ \E k \in 1..MaxChunks : WriteTmp(k)
  \/ Rename
  \/ Crash
SpecSaving == InitSaving /\ [][NextSaving]_vars


NextCwd == \E ev \in CwdInputs : AppendEvent(ev)
SpecCwd == Init /\ [][NextCwd]_vars

NextEntries == \E ev \in EntryInputs : AppendEvent(ev)
SpecEntries == Init /\ [][NextEntries]_vars

NextLegacy == (\E ev \in LegacyInputs : AppendEvent(ev)) \/ Tick
SpecLegacy == Init /\ [][NextLegacy]_vars

(***************************************************************************)
(* event-logger.sh and rotate-logs.sh, one system call at a time.          *)
(***************************************************************************)
\* >> "$LOG_FILE": the shell opens the log for appending, creating it
LoggerOpen(l, event) ==
  /\ hookProcs[l].pc = "idle"
  /\ logDir' = CreateIfAbsent(logDir, "log")
  /\ hookProcs' = [hookProcs EXCEPT ![l].pc = "opened", ![l].event = event,
                                    ![l].fd = logDir'.log]
  /\ UNCHANGED <<engineVars, serverVars, logVars, settingsVars, saveVars, chatVars>>

\* jq -c prints the line to the open descriptor
LoggerWrite(l) ==
  /\ hookProcs[l].pc = "opened"
  /\ logDir' = [logDir EXCEPT !.inodes[hookProcs[l].fd] = Append(@, LogLine(l, TODAY)),
                              !.appended = @ \cup {LogLine(l, TODAY)}]
  /\ hookProcs' = [hookProcs EXCEPT ![l].pc = "written"]
  /\ UNCHANGED <<engineVars, serverVars, logVars, settingsVars, saveVars, chatVars>>

\* on SessionStart rotate-logs.sh is started in the background; exit 0
LoggerExit(l) ==
  /\ hookProcs[l].pc = "written"
  /\ hookProcs' = [hookProcs EXCEPT
                     ![l].pc = "done",
                     ![l].rotate = IF hookProcs[l].event = "SessionStart" THEN "start" ELSE @]
  /\ UNCHANGED <<engineVars, serverVars, logVars, settingsVars, saveVars, logDir, chatVars>>

\* [[ ! -s "$LOG_FILE" ]] && exit 0
RotateCheck(l) ==
  /\ hookProcs[l].rotate = "start"
  /\ hookProcs' = [hookProcs EXCEPT
                     ![l].rotate = IF Content(logDir, "log") = <<>> THEN "done" ELSE "head"]
  /\ UNCHANGED <<engineVars, serverVars, logVars, settingsVars, saveVars, logDir, chatVars>>

\* FIRST_DATE=$(head -1 "$LOG_FILE" | ...) and the test against TODAY
RotateHead(l) ==
  /\ hookProcs[l].rotate = "head"
  /\ LET content == Content(logDir, "log")
         first   == IF content = <<>> THEN "" ELSE content[1].date
     IN  hookProcs' = [hookProcs EXCEPT
                         ![l].FIRST_DATE = first,
                         ![l].rotate = IF first # "" /\ first # TODAY THEN "test" ELSE "done"]
  /\ UNCHANGED <<engineVars, serverVars, logVars, settingsVars, saveVars, logDir, chatVars>>

\* [[ -f "$ARCHIVE" ]]
RotateTest(l) ==
  /\ hookProcs[l].rotate = "test"
  /\ hookProcs' = [hookProcs EXCEPT ![l].rotate = IF logDir.archive # 0 THEN "cat" ELSE "mv"]
  /\ UNCHANGED <<engineVars, serverVars, logVars, settingsVars, saveVars, logDir, chatVars>>

\* cat "$LOG_FILE" >> "$ARCHIVE": the shell opens the archive for appending
RotateCatOpen(l) ==
  /\ hookProcs[l].rotate = "cat"
  /\ logDir' = CreateIfAbsent(logDir, "archive")
  /\ hookProcs' = [hookProcs EXCEPT ![l].rotate = "read", ![l].archiveFd = logDir'.archive]
  /\ UNCHANGED <<engineVars, serverVars, logVars, settingsVars, saveVars, chatVars>>

\* cat reads the log (nothing when the file is gone)
RotateCatRead(l) ==
  /\ hookProcs[l].rotate = "read"
  /\ hookProcs' = [hookProcs EXCEPT ![l].rotate = "write",
                                    ![l].buffer = Content(logDir, "log")]
  /\ UNCHANGED <<engineVars, serverVars, logVars, settingsVars, saveVars, logDir, chatVars>>

\* cat writes what it read to the archive
RotateCatWrite(l) ==
  /\ hookProcs[l].rotate = "write"
  /\ logDir' = [logDir EXCEPT !.inodes[hookProcs[l].archiveFd] = @ \o hookProcs[l].buffer]
  /\ hookProcs' = [hookProcs EXCEPT ![l].rotate = "clear", ![l].buffer = <<>>]
  /\ UNCHANGED <<engineVars, serverVars, logVars, settingsVars, saveVars, chatVars>>

\* mv "$LOG_FILE" "$ARCHIVE": the rename replaces an archive made meanwhile and
\* fails when the log is gone
RotateMv(l) ==
  /\ hookProcs[l].rotate = "mv"
  /\ logDir' = IF logDir.log = 0 THEN logDir
               ELSE [logDir EXCEPT !.archive = logDir.log, !.log = 0]
  /\ hookProcs' = [hookProcs EXCEPT ![l].rotate = "clear"]
  /\ UNCHANGED <<engineVars, serverVars, logVars, settingsVars, saveVars, chatVars>>

\* [[ -f "$LOG_FILE" ]] &&
RotateClearTest(l) ==
  /\ hookProcs[l].rotate = "clear"
  /\ hookProcs' = [hookProcs EXCEPT ![l].rotate = IF logDir.log # 0 THEN "truncate" ELSE "done"]
  /\ UNCHANGED <<engineVars, serverVars, logVars, settingsVars, saveVars, logDir, chatVars>>

\* : > "$LOG_FILE": the log is opened with O_TRUNC, and created when it is gone
RotateTruncate(l) ==
  /\ hookProcs[l].rotate = "truncate"
  /\ logDir' = [CreateIfAbsent(logDir, "log") EXCEPT
                  !.inodes[CreateIfAbsent(logDir, "log").log] = <<>>]
  /\ hookProcs' = [hookProcs EXCEPT ![l].rotate = "done"]
  /\ UNCHANGED <<engineVars, serverVars, logVars, settingsVars, saveVars, chatVars>>

InitRotation ==
  /\ InitEngine /\ InitServer /\ InitLog /\ InitSettings /\ InitSave /\ InitChat
  /\ logDir \in LogDirInputs
  /\ hookProcs = [l \in 1..MaxLoggers |-> IdleHook]

NextRotation ==
  \E l \in 1..MaxLoggers :
    \/ \E event \in HookEvents : LoggerOpen(l, event)
    \/ LoggerWrite(l)
    \/ LoggerExit(l)
    \/ RotateCheck(l)
    \/ RotateHead(l)
    \/ RotateTest(l)
    \/ RotateCatOpen(l)
    \/ RotateCatRead(l)
    \/ RotateCatWrite(l)
    \/ RotateMv(l)
    \/ RotateClearTest(l)
    \/ RotateTruncate(l)
SpecRotation == InitRotation /\ [][NextRotation]_vars

(***************************************************************************)
(* handleChat: the request, the conversation and the response stream. An   *)
(* action is what the handler runs between two awaits.                    *)
(***************************************************************************)
\* req.on("data"): the body has arrived
ChatRequest(body) ==
  /\ chat.pc = "idle"
  /\ chat' = [chat EXCEPT !.pc = "received", !.body = body]
  /\ UNCHANGED <<engineVars, serverVars, logVars, settingsVars, saveVars, rotateVars>>

\* JSON.parse(body) of every body a request can carry
ParsedBodies == [body \in ChatBodies |-> JSONParse(body)]

\* req.on("end") up to the first await: the body is parsed (a null body throws
\* on .message), a missing or falsy message is refused, otherwise the headers
\* are sent, the close listener is set and the query is started. The context
\* read from the log (lines 85-87) only feeds the system prompt.
ChatBegin ==
  /\ chat.pc = "received"
  /\ LET parsed  == ParsedBodies[chat.body]
         threw   == ~parsed.ok \/ parsed.value.kind = "null"
         members == IF parsed.value.kind = "object" THEN parsed.value.members ELSE <<>>
         found   == \E i \in 1..Len(members) : members[i].key = <<"m","e","s","s","a","g","e">>
         message == IF found
                    THEN members[CHOOSE i \in 1..Len(members) :
                                   members[i].key = <<"m","e","s","s","a","g","e">>].value
                    ELSE JNull
         falsy   == \/ ~found
                    \/ message.kind \in {"null", "false"}
                    \/ message.kind = "number" /\ message.num = 0
                    \/ message.kind = "string" /\ message.str = <<>>
     IN  chat' = IF threw
                 THEN [chat EXCEPT !.pc = "ended", !.status = 400, !.ended = TRUE,
                                   !.error = "Invalid JSON body"]
                 ELSE IF falsy
                 THEN [chat EXCEPT !.pc = "ended", !.status = 400, !.ended = TRUE,
                                   !.error = "message is required"]
                 ELSE [chat EXCEPT !.pc = "streaming", !.status = 200,
                                   !.prompt = message, !.queryStarted = TRUE]
  /\ UNCHANGED <<engineVars, serverVars, logVars, settingsVars, saveVars, rotateVars>>

\* res.on("close"): the client is gone, the query is aborted
ClientDisconnect ==
  /\ chat.pc = "streaming"
  /\ ~chat.aborted
  /\ chat' = [chat EXCEPT !.aborted = TRUE]
  /\ UNCHANGED <<engineVars, serverVars, logVars, settingsVars, saveVars, rotateVars>>

\* one turn of the for await loop (lines 142-167)
ChatMessage(msg) ==
  /\ chat.pc = "streaming"
  /\ chat.yielded < MaxMessages
  /\ LET joined  == [i \in 1..(2 * Len(msg.errors) - 1) |->
                       IF i % 2 = 1 THEN msg.errors[(i + 1) \div 2] ELSE ", "]
         errText == IF Len(msg.errors) = 0 THEN <<"Unknown error">> ELSE joined
         st      == [chat EXCEPT !.yielded = @ + 1]
     IN  chat' =
           IF msg.type = "assistant" THEN WriteBlocks(st, msg.content)
           ELSE IF msg.type = "result"
           THEN IF msg.subtype = "success" /\ msg.result # "" /\ ~chat.hasContent
                THEN [st EXCEPT !.hasContent = TRUE,
                                !.written = Append(@, SseData("text", <<msg.result>>))]
                ELSE IF msg.subtype # "success"
                THEN [st EXCEPT !.written =
                        Append(@, SseData("text", <<"\nError (", msg.subtype, "): ">> \o errText))]
                ELSE st
           ELSE st
  /\ UNCHANGED <<engineVars, serverVars, logVars, settingsVars, saveVars, rotateVars>>

\* the conversation is over (lines 169-171, 179-180): the fallback text when
\* nothing set hasContent, then [DONE] and res.end()
ChatFinish ==
  /\ chat.pc = "streaming"
  /\ chat' = [chat EXCEPT
                !.pc = "ended", !.ended = TRUE,
                !.written = @ \o (IF ~chat.hasContent
                                  THEN <<SseData("text", <<"Error: No response received from Claude.">>)>>
                                  ELSE <<>>)
                              \o <<SseData("done", <<"[DONE]">>)>>]
  /\ UNCHANGED <<engineVars, serverVars, logVars, settingsVars, saveVars, rotateVars>>

\* the conversation throws and the rejection is not caught: nothing ends the response
ChatThrowUncaught(err) ==
  /\ chat.pc = "streaming"
  /\ chat' = [chat EXCEPT !.pc = "rejected"]
  /\ UNCHANGED <<engineVars, serverVars, logVars, settingsVars, saveVars, rotateVars>>

\* the conversation throws (lines 172-180): the error text unless the query was
\* aborted, then [DONE] and res.end()
ChatThrow(err) ==
  /\ chat.pc = "streaming"
  /\ chat' = [chat EXCEPT
                !.pc = "ended", !.ended = TRUE,
                !.written = @ \o (IF ~chat.aborted
                                  THEN <<SseData("text", <<"\nError: ", err>>)>>
                                  ELSE <<>>)
                              \o <<SseData("done", <<"[DONE]">>)>>]
  /\ UNCHANGED <<engineVars, serverVars, logVars, settingsVars, saveVars, rotateVars>>

\* the loop goes on: the conversation yields a message, ends or throws
ChatAdvance ==
  \/ \E msg \in ChatMessages : ChatMessage(msg)
  \/ ChatFinish
  \/ \E err \in ChatErrors : ChatThrow(err)

NextChat ==
  \/ \E body \in ChatBodies : ChatRequest(body)
  \/ ChatBegin
  \/ ClientDisconnect
  \/ ChatAdvance
SpecChat == Init /\ [][NextChat]_vars

\* The event loop runs the listener of a request that has arrived, and the
\* conversation, which is finite, delivers its next message, its end or its error.
SpecChatLive == SpecChat /\ WF_vars(ChatBegin) /\ WF_vars(ChatAdvance)

(***************************************************************************)
(* The whole program: every action, on every input.                        *)
(***************************************************************************)
Next ==
  \/ \E ev \in Inputs \cup SearchInputs \cup ListingInputs \cup CwdInputs : AppendEvent(ev)
  \/ Tick
  \/ NextFiles
  \/ NextAppend
  \/ NextInstaller
  \/ NextSaving
  \/ NextRotation
  \/ NextChat
Spec == Init /\ [][Next]_vars

(***************************************************************************)
(* Properties.                                                             *)
(***************************************************************************)
Summary == buildSummary(events, now)

EventIndices == 1..Len(events)

RECURSIVE SumSeq(_)
SumSeq(s) == IF s = <<>> THEN 0 ELSE Head(s) + SumSeq(Tail(s))

\* The session an event belongs to: its session_id, "unknown" when absent or empty.
OwnerOf(ev) == IF Len(ev.session_id) = 0 THEN <<"u","n","k","n","o","w","n">> ELSE ev.session_id

\* C1: totalEvents is the number of events, the sessions' eventCount values sum to
\* it, and every event is counted in exactly the one session that owns it.
C1_EventConservation ==
  LET s == Summary
  IN  /\ s.totalEvents = Len(events)
      /\ SumSeq([i \in 1..Len(s.sessions) |-> s.sessions[i].eventCount]) = Len(events)
      /\ \A j \in EventIndices :
           Cardinality({i \in 1..Len(s.sessions) : s.sessions[i].id = OwnerOf(events[j])}) = 1
      /\ \A i \in 1..Len(s.sessions) :
           s.sessions[i].eventCount =
             Cardinality({j \in EventIndices : OwnerOf(events[j]) = s.sessions[i].id})
      /\ (events = <<>> =>
            /\ s.sessions = <<>> /\ s.toolUsage = <<>> /\ s.skillUsage = <<>>
            /\ s.orphanIds = <<>> /\ s.sessionCount = 0 /\ s.orphanCount = 0
            /\ s.interruptCount = 0 /\ s.toolCount = 0)

\* An event without session_id and one with the literal id "unknown" share a session,
\* next to a session with an id of its own.
C1_Witness ==
  /\ \E j \in EventIndices : events[j].session_id = <<>>
  /\ \E j \in EventIndices : events[j].session_id = UNKNOWN
  /\ \E j \in EventIndices : events[j].session_id = S1
  /\ Summary.sessionCount = 2

OpenedIds ==
  {events[j].data.tool_use_id : j \in {k \in EventIndices :
     events[k].event = "PreToolUse" /\ events[k].data.tool_use_id # ""}}

ClosedIds ==
  {events[j].data.tool_use_id : j \in {k \in EventIndices :
     /\ events[k].event \in {"PostToolUse", "PostToolUseFailure"}
     /\ events[k].data.tool_use_id # ""}}

SeqToSet(s) == {s[i] : i \in 1..Len(s)}

\* C2: orphanIds is the duplicate-free set of ids opened by a PreToolUse and closed by
\* no PostToolUse or PostToolUseFailure, wherever those events are; orphanCount is its size.
C2_OrphanSet ==
  LET s == Summary
  IN  /\ SeqToSet(s.orphanIds) = OpenedIds \ ClosedIds
      /\ Len(s.orphanIds) = Cardinality(OpenedIds \ ClosedIds)
      /\ s.orphanCount = Cardinality(OpenedIds \ ClosedIds)

\* One id is orphaned while another is closed by a failure event of another session,
\* before its PreToolUse.
C2_Witness ==
  /\ Cardinality(OpenedIds \ ClosedIds) = 1
  /\ \E j, k \in EventIndices :
       /\ j < k
       /\ events[j].event = "PostToolUseFailure" /\ events[k].event = "PreToolUse"
       /\ events[j].data.tool_use_id = events[k].data.tool_use_id
       /\ events[j].session_id # events[k].session_id

\* C3: the sessions' orphanCount values sum to the summary's orphanCount, every orphaned
\* id being tallied once, in the session of its PreToolUse event.
C3_OrphanTally ==
  LET s == Summary
  IN  /\ SumSeq([i \in 1..Len(s.sessions) |-> s.sessions[i].orphanCount]) = s.orphanCount
      /\ \A i \in 1..Len(s.sessions) :
           s.sessions[i].orphanCount =
             Cardinality({id \in OpenedIds \ ClosedIds :
                \E j \in EventIndices :
                  /\ events[j].event = "PreToolUse" /\ events[j].data.tool_use_id = id
                  /\ OwnerOf(events[j]) = s.sessions[i].id})

SessionEventIndices(id) == {j \in EventIndices : OwnerOf(events[j]) = id}

SetMax(S) == CHOOSE x \in S : \A y \in S : y <= x

\* C4: a session that has a SessionStart and no SessionEnd is live when the clock is at
\* most five minutes past its latest timestamp and stale otherwise; any other session
\* is neither; the two flags never hold together and the summary counts them.
C4_LiveStale ==
  LET s == Summary
  IN  /\ \A i \in 1..Len(s.sessions) :
           LET sess    == s.sessions[i]
               own     == SessionEventIndices(sess.id)
               started == \E j \in own : events[j].event = "SessionStart"
               ended   == \E j \in own : events[j].event = "SessionEnd"
               last    == SetMax({DateGetTime(events[j].ts) : j \in own})
           IN  /\ DateGetTime(sess.lastTs) = last
               /\ (started /\ ~ended) =>
                    /\ sess.isLive # sess.isStale
                    /\ sess.isLive <=> (now - last <= 5 * 60 * 1000)
               /\ ~(started /\ ~ended) => (~sess.isLive /\ ~sess.isStale)
               /\ ~(sess.isLive /\ sess.isStale)
               /\ sess.hasSessionEnd => (~sess.isLive /\ ~sess.isStale)
      /\ s.liveSessionCount = Cardinality({i \in 1..Len(s.sessions) : s.sessions[i].isLive})
      /\ s.staleSessionCount = Cardinality({i \in 1..Len(s.sessions) : s.sessions[i].isStale})

\* A session exactly five minutes past its latest timestamp, which is not that of its
\* last event, is live beside a stale session.
C4_Witness ==
  LET s == Summary
  IN  \E i, k \in 1..Len(s.sessions) :
        /\ s.sessions[i].isLive /\ now - DateGetTime(s.sessions[i].lastTs) = 300000
        /\ \E j \in SessionEventIndices(s.sessions[i].id) :
             /\ events[j].ts # s.sessions[i].lastTs
             /\ \A j2 \in SessionEventIndices(s.sessions[i].id) : j2 <= j
        /\ s.sessions[k].isStale

ListArgs ==
  [status : {"", "all", "live", "stale", "ended"}, since : {<<>>, TB}, limit : {<<>>, <<1>>}]

RecentArgs == [minutes : {<<>>, <<5>>}, since : {<<>>, TB}]

ExplicitlyEnded(id, considered) ==
  \E j \in 1..Len(considered) :
    OwnerOf(considered[j]) = id /\ considered[j].event = "SessionEnd"

\* C5: every session the query layer reports has one status among live, stale and ended,
\* and is reported ended only when a SessionEnd event of that session is among the
\* events considered.
C5_EndedOnlyExplicitly ==
  /\ \A a \in ListArgs :
       LET r == handleListSessions(events, now, a)
       IN  \A i \in 1..Len(r) :
             /\ r[i].status \in {"live", "stale", "ended"}
             /\ r[i].status = "ended" => ExplicitlyEnded(r[i].id, events)
  /\ \A a \in RecentArgs :
       LET r == handleGetRecentActivity(events, now, a)
           considered == SelectSeq(events, LAMBDA ev : ~StrLess(ev.ts, r.timeRange.since))
       IN  \A i \in 1..Len(r.sessions) :
             /\ r.sessions[i].status \in {"live", "stale", "ended"}
             /\ r.sessions[i].status = "ended" => ExplicitlyEnded(r.sessions[i].id, considered)

\* First whitespace-delimited token of the trimmed prompt.
PromptToken(ev) == FirstToken(trim(ev.data.prompt))

IsSkillPrompt(ev) ==
  /\ ev.event = "UserPromptSubmit"
  /\ Len(PromptToken(ev)) > 0 /\ PromptToken(ev)[1] = "/"
  /\ toLowerCase(PromptToken(ev)) \notin BUILTIN_COMMANDS

SlashUses(k) ==
  Cardinality({j \in EventIndices : IsSkillPrompt(events[j]) /\ Tail(PromptToken(events[j])) = k})

IsSkillTool(ev) == ev.event = "PreToolUse" /\ ev.data.tool_name = "Skill"

SkillNames ==
  {Summary.skillUsage[i].name : i \in 1..Len(Summary.skillUsage)}
    \cup {events[j].data.tool_input_summary : j \in EventIndices}
    \cup {SliceFromOne(PromptToken(events[j])) : j \in EventIndices}
    \cup {UNKNOWN, <<>>}

NoDuplicateNames(usage) ==
  \A i, j \in 1..Len(usage) : usage[i].name = usage[j].name => i = j

\* C6 (as stated): the count of a skill name k is the number of Skill tool events whose
\* tool_input_summary is k plus the number of non-built-in slash prompts whose first
\* token without the '/' is k.
C6_SkillCountsAsStated ==
  /\ NoDuplicateNames(Summary.skillUsage)
  /\ \A k \in SkillNames :
       MapCount(Summary.skillUsage, k) =
         Cardinality({j \in EventIndices :
            IsSkillTool(events[j]) /\ events[j].data.tool_input_summary = k})
         + SlashUses(k)

\* C6 (amended): as above, a Skill tool event whose tool_input_summary is missing or
\* empty being counted under the name "unknown".
C6_SkillCounts ==
  /\ NoDuplicateNames(Summary.skillUsage)
  /\ \A k \in SkillNames :
       MapCount(Summary.skillUsage, k) =
         Cardinality({j \in EventIndices :
            /\ IsSkillTool(events[j])
            /\ \/ events[j].data.tool_input_summary = k /\ k # <<>>
               \/ events[j].data.tool_input_summary = <<>> /\ k = UNKNOWN})
         + SlashUses(k)

\* A Skill tool event and a slash prompt meet in one entry of count 2, beside a Skill
\* tool event without a summary that is counted under "unknown".
C6_Witness ==
  /\ MapCount(Summary.skillUsage, COMMIT) = 2
  /\ MapCount(Summary.skillUsage, UNKNOWN) = 1
  /\ \E j \in EventIndices : IsSkillTool(events[j]) /\ events[j].data.tool_input_summary = <<>>
  /\ \E j \in EventIndices : IsSkillTool(events[j]) /\ events[j].data.tool_input_summary = COMMIT
  /\ \E j \in EventIndices : IsSkillPrompt(events[j])

ToolNames == {events[j].data.tool_name : j \in EventIndices} \ {""}

\* C7: the count of a tool name is the number of events of any type that carry it, and
\* toolCount is the number of distinct tool names.
C7_ToolCounts ==
  /\ NoDuplicateNames(Summary.toolUsage)
  /\ \A n \in ToolNames \cup {"Read", "Bash", "Skill"} :
       MapCount(Summary.toolUsage, n) =
         Cardinality({j \in EventIndices : events[j].data.tool_name = n})
  /\ Summary.toolCount = Cardinality(ToolNames)
  /\ Len(Summary.toolUsage) = Cardinality(ToolNames)

\* A PreToolUse and its PostToolUseFailure make a count of 2, beside a second tool.
C7_Witness ==
  /\ MapCount(Summary.toolUsage, "Bash") = 2
  /\ \E j \in EventIndices : events[j].event = "PreToolUse" /\ events[j].data.tool_name = "Bash"
  /\ \E j \in EventIndices :
       events[j].event = "PostToolUseFailure" /\ events[j].data.tool_name = "Bash"
  /\ Summary.toolCount = 2

ActiveStop(ev) == ev.event = "Stop" /\ ev.data.stop_hook_active = TRUE

\* C8: interruptCount is the number of Stop events whose stop_hook_active is set, and a
\* session has hasInterrupt exactly when one of them is its own; no other event counts.
C8_Interrupts ==
  /\ Summary.interruptCount = Cardinality({j \in EventIndices : ActiveStop(events[j])})
  /\ \A i \in 1..Len(Summary.sessions) :
       Summary.sessions[i].hasInterrupt <=>
         \E j \in SessionEventIndices(Summary.sessions[i].id) : ActiveStop(events[j])

\* One session is interrupted; the other holds a Stop without the flag and a failure
\* flagged is_interrupt, and is not.
C8_Witness ==
  /\ Summary.interruptCount = 1
  /\ \E j \in EventIndices : ActiveStop(events[j]) /\ events[j].session_id = S1
  /\ \E j \in EventIndices :
       events[j].event = "Stop" /\ ~events[j].data.stop_hook_active /\ events[j].session_id = S2
  /\ \E j \in EventIndices : events[j].data.is_interrupt /\ events[j].session_id = S2
  /\ \E i \in 1..Len(Summary.sessions) :
       Summary.sessions[i].id = S2 /\ ~Summary.sessions[i].hasInterrupt

\* C9: for an argument that matches some event, the detail's tools and skills are the
\* summary's toolUsage and skillUsage of the matched events.
C9_DetailSameAggregation ==
  \A p \in SessionArgs :
    LET matched == getSessionEvents(events, p)
        detail  == buildSessionDetail(events, p)
        summary == buildSummary(matched, now)
    IN  Len(matched) > 0 =>
          /\ detail.tools = summary.toolUsage
          /\ detail.skills = summary.skillUsage

\* session_id equals p or starts with p
Selected(ev, p) ==
  /\ Len(p) <= Len(ev.session_id)
  /\ \A i \in 1..Len(p) : ev.session_id[i] = p[i]

\* C10: the lookups select exactly the events whose session_id equals or starts with the
\* argument, in input order; eventCount is their number; no match gives the empty detail.
C10_Selection ==
  \A p \in SessionArgs :
    LET M == {j \in EventIndices : Selected(events[j], p)}
        r == getSessionEvents(events, p)
        d == buildSessionDetail(events, p)
    IN  /\ Len(r) = Cardinality(M)
        /\ \A k \in 1..Len(r) :
             \E j \in M : r[k] = events[j] /\ Cardinality({j2 \in M : j2 < j}) = k - 1
        /\ d.sessionId = p
        /\ d.eventCount = Cardinality(M)
        /\ Len(d.events) = Cardinality(M)
        /\ \A k \in 1..Len(d.events) :
             d.events[k].event = r[k].event /\ d.events[k].tool = r[k].data.tool_name
        /\ M = {} =>
             /\ d.eventCount = 0 /\ d.firstTs = Null /\ d.lastTs = Null /\ d.cwd = ""
             /\ d.tools = <<>> /\ d.skills = <<>> /\ d.events = <<>>

\* The prefix s1 selects the events of s1 and s12 around an event of s2, which it
\* leaves out, and the argument s3 selects nothing.
C10_Witness ==
  /\ Len(events) = 3
  /\ events[1].session_id = S12 /\ events[2].session_id = S2 /\ events[3].session_id = S1
  /\ buildSessionDetail(events, S1).eventCount = 2
  /\ buildSessionDetail(events, S3).eventCount = 0

\* The name is free of separators and of "..", begins with hook-events, ends
\* with .jsonl and has only word characters, dots and hyphens in between.
NameIsSafe(file) ==
  /\ \A i \in 1..Len(file) : file[i] # "/" /\ file[i] # "\\"
  /\ \A i \in 1..(Len(file) - 1) : ~(file[i] = "." /\ file[i + 1] = ".")
  /\ Len(file) >= Len(HOOK_EVENTS) + Len(JSONL)
  /\ SubSeq(file, 1, Len(HOOK_EVENTS)) = HOOK_EVENTS
  /\ SubSeq(file, Len(file) - Len(JSONL) + 1, Len(file)) = JSONL
  /\ \A i \in (Len(HOOK_EVENTS) + 1)..(Len(file) - Len(JSONL)) :
       IsWordChar(file[i]) \/ file[i] \in {".", "-"}

\* C11: /api/events and /api/summary read a log file only if its name has no
\* "/", no "\" and no "..", starts with hook-events, ends with .jsonl and has
\* only word characters, "." or "-" in between, and the file read is the one
\* named; every other non-empty name is answered with HTTP 400 and an error
\* body, and no file is read.
C11_FileValidation ==
  http.pathname \in {"/api/events", "/api/summary"} =>
    /\ \A i \in 1..Len(http.read) :
         http.read[i] = FileParam(http.param) /\ NameIsSafe(http.read[i])
    /\ (http.param # <<>> /\ ~NameIsSafe(http.param)) =>
         (http.status = 400 /\ http.error /\ http.read = <<>>)

\* a name that fits the pattern and is refused for its "..", and nothing read
C11_Witness ==
  /\ http.pathname = "/api/summary"
  /\ FilenamePattern(http.param)
  /\ includes(http.param, <<".", ".">>)
  /\ http.status = 400
  /\ http.read = <<>>

\* The lines of a file content, by position: a line runs from the start of the
\* content or the character after a newline up to the next newline or the end.
LineStartsOf(content) ==
  {1} \cup {i + 1 : i \in {j \in 1..Len(content) : content[j] = "\n"}}

LineAt(content, b) ==
  LET ends == {j \in b..Len(content) : content[j] = "\n"} \cup {Len(content) + 1}
      e == CHOOSE x \in ends : \A y \in ends : x <= y
  IN  SubSeq(content, b, e - 1)

IsBlank(line) == \A i \in 1..Len(line) : line[i] \in {" ", "\t", "\n", "\r"}

\* the starts of the non-blank lines that decode as JSON
DecodableStarts(content) ==
  {b \in LineStartsOf(content) :
     ~IsBlank(LineAt(content, b)) /\ JSONParse(LineAt(content, b)).ok}

RECURSIVE AscendingSeq(_)
AscendingSeq(S) ==
  IF S = {} THEN <<>>
  ELSE LET m == CHOOSE x \in S : \A y \in S : x <= y
       IN  <<m>> \o AscendingSeq(S \ {m})

\* C12: parseLogFile returns, in file order, exactly one record per non-blank
\* line that decodes as JSON, the decoded value of that line; blank lines and
\* lines that fail to decode are skipped without raising and leave the other
\* lines' records as they are; an absent or empty file yields no record.
C12_ParseLogFile ==
  reader.returned =>
    LET content == reader.snapshot.content
        starts  == AscendingSeq(DecodableStarts(content))
    IN  /\ ~reader.result.threw
        /\ Len(reader.result.events) = Len(starts)
        /\ \A i \in 1..Len(starts) :
             reader.result.events[i] = JSONParse(LineAt(content, starts[i])).value
        /\ (~reader.snapshot.exists \/ content = <<>>) => reader.result.events = <<>>

\* a file with a record, then a line that fails to decode, then a record, and
\* a blank line, read to the end: two records
C12_Witness ==
  /\ reader.returned
  /\ reader.snapshot.exists
  /\ Len(reader.result.events) = 2
  /\ \E a, b, c, d \in LineStartsOf(reader.snapshot.content) :
       /\ a < b /\ b < d
       /\ JSONParse(LineAt(reader.snapshot.content, a)).ok
       /\ ~IsBlank(LineAt(reader.snapshot.content, b))
       /\ ~JSONParse(LineAt(reader.snapshot.content, b)).ok
       /\ IsBlank(LineAt(reader.snapshot.content, c))
       /\ JSONParse(LineAt(reader.snapshot.content, d)).ok

\* C13: while the hook appends complete JSON lines, each append reaching the
\* file in one or several steps, every parseLogFile call returns without
\* raising, and returns exactly the records of the lines whose text was all in
\* the file when it read, in append order: a line whose text is cut short is
\* left out and never comes back as another record, and a line whose append was
\* complete when the call began is in the result.
C13_ReadDuringAppend ==
  reader.returned =>
    /\ ~reader.result.threw
    /\ Len(reader.result.events) = reader.complete
    /\ \A i \in 1..Len(reader.result.events) :
         reader.result.events[i] = JSONParse(writer.lines[i]).value
    /\ \A i \in 1..reader.doneAtStart :
         /\ i <= Len(reader.result.events)
         /\ reader.result.events[i] = JSONParse(writer.lines[i]).value

\* a call that read the file with the second line cut short returned the first
\* record alone
C13_Witness ==
  /\ reader.returned
  /\ Len(writer.lines) = 2
  /\ Len(reader.snapshot.content) > Len(writer.lines[1]) + 2
  /\ Len(reader.snapshot.content) < Len(writer.lines[1]) + 1 + Len(writer.lines[2])
  /\ reader.result.events = <<JSONParse(writer.lines[1]).value>>

\* p occurs in s, letters compared without regard to case
ContainsIgnoringCase(s, p) ==
  \E i \in 0..(Len(s) - Len(p)) :
    \A j \in 1..Len(p) : LowerChar(s[i + j]) = LowerChar(p[j])

\* the event passes every filter the arguments supply
SearchKeeps(ev, a) ==
  /\ a.session_id # <<>> => Selected(ev, a.session_id)
  /\ a.event_type # "" => ev.event = a.event_type
  /\ a.tool_name # "" => ev.data.tool_name = a.tool_name
  /\ a.text_search # <<>> =>
       \/ ContainsIgnoringCase(ev.data.tool_input_summary, a.text_search)
       \/ ContainsIgnoringCase(ev.data.prompt, a.text_search)

\* C14: handleSearchEvents keeps an event iff it passes all the supplied filters
\* (session id prefix, exact event type, exact tool name, case-insensitive
\* substring of the summary or of the prompt); totalMatches counts the kept
\* events, results are the first min(limit, totalMatches) of them in log order
\* (limit 50 when absent), and truncated is true exactly when totalMatches
\* exceeds the limit.
C14_Search ==
  \A a \in SearchArgs :
    LET K     == {j \in EventIndices : SearchKeeps(events[j], a)}
        r     == handleSearchEvents(events, a)
        limit == IF a.limit = <<>> THEN 50 ELSE a.limit[1]
        n     == IF limit < Cardinality(K) THEN limit ELSE Cardinality(K)
    IN  /\ r.totalMatches = Cardinality(K)
        /\ Len(r.results) = n
        /\ \A k \in 1..n :
             \E j \in K :
               /\ Cardinality({j2 \in K : j2 < j}) = k - 1
               /\ r.results[k].event = events[j].event
               /\ r.results[k].session_id = events[j].session_id
               /\ r.results[k].ts = events[j].ts
               /\ r.results[k].tool = events[j].data.tool_name
        /\ r.truncated = (Cardinality(K) > limit)

\* a search with all four filters and limit 1 over a log holding two matches
\* and an event that fails a filter: one result, truncated
C14_Witness ==
  /\ Len(events) = 3
  /\ \E a \in SearchArgs :
       /\ a.session_id # <<>> /\ a.event_type # "" /\ a.tool_name # ""
       /\ a.text_search # <<>> /\ a.limit = <<1>>
       /\ handleSearchEvents(events, a).totalMatches = 2
       /\ handleSearchEvents(events, a).truncated
       /\ Len(handleSearchEvents(events, a).results) = 1

\* the session of the summary is one the arguments ask for
ListingWants(s, a) ==
  /\ a.status = "live" => s.isLive
  /\ a.status = "stale" => s.isStale
  /\ a.status = "ended" => ~s.isLive /\ ~s.isStale
  /\ a.since # <<>> => ~StrLess(s.lastTs, a.since)

\* C15: handleListSessions returns sessions of the summary that match the
\* requested status (none requested for all or absent) and, when since is
\* given, have lastTs >= since; they are ordered by lastTs descending and are
\* the first limit (50 when absent) of the matching sessions in that order;
\* when a status other than all is requested every entry carries that status.
C15_ListSessions ==
  \A a \in ListingArgs :
    LET s     == Summary.sessions
        M     == {i \in 1..Len(s) : ListingWants(s[i], a)}
        r     == handleListSessions(events, now, a)
        limit == IF a.limit = <<>> THEN 50 ELSE a.limit[1]
        n     == IF limit < Cardinality(M) THEN limit ELSE Cardinality(M)
    IN  /\ Len(r) = n
        /\ \A k \in 1..Len(r) :
             \E i \in M : /\ r[k].id = s[i].id
                          /\ r[k].lastTs = s[i].lastTs
                          /\ r[k].firstTs = s[i].firstTs
                          /\ r[k].eventCount = s[i].eventCount
        /\ \A k1, k2 \in 1..Len(r) : k1 # k2 => r[k1].id # r[k2].id
        /\ \A k \in 1..(Len(r) - 1) : ~StrLess(r[k].lastTs, r[k + 1].lastTs)
        /\ \A i \in M :
             (\A k \in 1..Len(r) : r[k].id # s[i].id) =>
               \A k \in 1..Len(r) : ~StrLess(r[k].lastTs, s[i].lastTs)
        /\ a.status \in {"live", "stale", "ended"} =>
             \A k \in 1..Len(r) : r[k].status = a.status

\* three sessions handed over oldest first, two of them stale and the newest
\* live: asking for one stale session gives the later of the two stale ones
C15_Witness ==
  /\ Len(events) = 3
  /\ StrLess(events[1].ts, events[2].ts) /\ StrLess(events[2].ts, events[3].ts)
  /\ Len(Summary.sessions) = 3
  /\ Summary.sessions[1].isLive
  /\ Summary.sessions[2].isStale /\ Summary.sessions[3].isStale
  /\ LET r == handleListSessions(events, now, [status |-> "stale", since |-> <<>>,
                                               limit |-> <<1>>])
     IN  Len(r) = 1 /\ r[1].id = events[2].session_id /\ r[1].status = "stale"

\* C16: mergeHooks is idempotent: merging the same config a second time gives
\* a result deep-equal to the result of merging it once.
C16_MergeIdempotent ==
  mergeHooks(mergeHooks(settings, config), config) = mergeHooks(settings, config)

\* the hooks map of a settings object, empty when it has no hooks key
HooksOf(s) == IF s.hasHooks THEN s.hooks ELSE NoHooks

\* the matcher groups of an event in a settings object, none when the event is
\* absent or its value is not an array
GroupsOf(s, e) ==
  IF e \in DOMAIN HooksOf(s) /\ HooksOf(s)[e].isArray THEN HooksOf(s)[e].groups ELSE <<>>

\* the command the config registers for the event: that of its first hook
ConfigCommand(c, e) ==
  LET groups == GroupsOf(c, e)
  IN  IF groups # <<>> /\ groups[1].hooksIsArray /\ groups[1].hooks # <<>>
      THEN groups[1].hooks[1].command
      ELSE ""

\* some hook of type command among the groups has exactly this command
HasCommandHook(groups, command) ==
  \E i \in 1..Len(groups) :
    /\ groups[i].hooksIsArray
    /\ \E j \in 1..Len(groups[i].hooks) :
         groups[i].hooks[j].type = "command" /\ groups[i].hooks[j].command = command

\* C17: mergeHooks only appends: the non-hooks keys of the result are those of
\* the settings; for every event the groups already in the settings are a
\* prefix of the result's groups, in order and with the same matcher and hooks
\* (type, command, async, timeout); what follows them is the config's groups
\* for the event, and they are added only when no existing hook of type command
\* has exactly the command the config registers for the event.
C17_MergeOnlyAppends ==
  installer.op = "install" =>
    LET s == installer.before
        r == settings
    IN  /\ r.other = s.other
        /\ s.hasHooks => r.hasHooks
        /\ DOMAIN HooksOf(s) \subseteq DOMAIN HooksOf(r)
        /\ \A e \in DOMAIN HooksOf(s) :
             IF ~s.hooks[e].isArray THEN r.hooks[e] = s.hooks[e]
             ELSE /\ r.hooks[e].isArray
                  /\ Len(r.hooks[e].groups) >= Len(s.hooks[e].groups)
                  /\ SubSeq(r.hooks[e].groups, 1, Len(s.hooks[e].groups)) = s.hooks[e].groups
        /\ \A e \in DOMAIN HooksOf(r) :
             LET old   == GroupsOf(s, e)
                 added == SubSeq(GroupsOf(r, e), Len(old) + 1, Len(GroupsOf(r, e)))
             IN  added # <<>> =>
                   /\ added = GroupsOf(config, e)
                   /\ ~HasCommandHook(old, ConfigCommand(config, e))

\* an install that put the config's group after the group Stop already had and
\* left PreToolUse, which already ran the logger, as it was
C17_Witness ==
  /\ installer.op = "install"
  /\ GroupsOf(installer.before, "Stop") = <<GroupO>>
  /\ GroupsOf(settings, "Stop") = <<GroupO, GroupL>>
  /\ GroupsOf(config, "PreToolUse") = <<GroupL>>
  /\ GroupsOf(installer.before, "PreToolUse") = <<GroupL>>
  /\ GroupsOf(settings, "PreToolUse") = <<GroupL>>

\* the commands of the config's hooks, of any type
ListedCommandsAnyType(c) ==
  UNION {UNION {{GroupsOf(c, e)[i].hooks[j].command : j \in 1..Len(GroupsOf(c, e)[i].hooks)} :
                  i \in 1..Len(GroupsOf(c, e))} :
         e \in DOMAIN HooksOf(c)} \ {""}

\* the commands of the config's hooks of type command
ListedCommands(c) ==
  UNION {UNION {{GroupsOf(c, e)[i].hooks[j].command :
                   j \in {k \in 1..Len(GroupsOf(c, e)[i].hooks) :
                            GroupsOf(c, e)[i].hooks[k].type = "command"}} :
                  i \in 1..Len(GroupsOf(c, e))} :
         e \in DOMAIN HooksOf(c)} \ {""}

\* the hooks of a group that are not hooks of type command with a listed command
RemainingHooks(group, listed) ==
  SelectSeq(group.hooks, LAMBDA h : ~(h.type = "command" /\ h.command \in listed))

WithRemainingHooks(groups, listed) ==
  [i \in 1..Len(groups) |->
     IF groups[i].hooksIsArray
     THEN [groups[i] EXCEPT !.hooks = RemainingHooks(groups[i], listed)]
     ELSE groups[i]]

\* the groups of an event after the removal, a group going only when the
\* removal took its last hook
GroupsAfterRemovalAsStated(groups, listed) ==
  WithRemainingHooks(
    SelectSeq(groups, LAMBDA g : ~g.hooksIsArray \/ g.hooks = <<>>
                                   \/ RemainingHooks(g, listed) # <<>>),
    listed)

\* the hooks map after the removal, an event going only when the removal took
\* its last group
HooksAfterRemovalAsStated(s, listed) ==
  LET stays == {e \in DOMAIN HooksOf(s) :
                  \/ ~s.hooks[e].isArray
                  \/ s.hooks[e].groups = <<>>
                  \/ GroupsAfterRemovalAsStated(s.hooks[e].groups, listed) # <<>>}
  IN  [e \in stays |->
         IF s.hooks[e].isArray
         THEN GroupArray(GroupsAfterRemovalAsStated(s.hooks[e].groups, listed))
         ELSE s.hooks[e]]

GroupsAfterRemoval(groups, listed) ==
  WithRemainingHooks(
    SelectSeq(groups, LAMBDA g : ~g.hooksIsArray \/ RemainingHooks(g, listed) # <<>>),
    listed)

\* the hooks map after the removal, every event without a group going
HooksAfterRemoval(s, listed) ==
  LET stays == {e \in DOMAIN HooksOf(s) :
                  \/ ~s.hooks[e].isArray
                  \/ GroupsAfterRemoval(s.hooks[e].groups, listed) # <<>>}
  IN  [e \in stays |->
         IF s.hooks[e].isArray
         THEN GroupArray(GroupsAfterRemoval(s.hooks[e].groups, listed))
         ELSE s.hooks[e]]

C19_SaveAtomic ==
  save.pc # "idle" =>
    /\ \/ disk.files[SETTINGS_PATH] = save.previous
       \/ disk.files[SETTINGS_PATH] = [exists |-> TRUE, text |-> save.data, chunks |-> MaxChunks]
    /\ disk.files[SETTINGS_PATH].exists => disk.files[SETTINGS_PATH].chunks = MaxChunks
    /\ (save.pc = "done") =>
         disk.files[SETTINGS_PATH] = [exists |-> TRUE, text |-> save.data, chunks |-> MaxChunks]

\* the process died with part of the new text written: the path still holds
\* the whole previous text
C19_Witness ==
  /\ save.pc = "crashed"
  /\ save.previous.exists
  /\ disk.files[SETTINGS_PATH] = save.previous
  /\ save.data # save.previous.text
  /\ \E p \in DOMAIN disk.files :
       /\ disk.files[p].exists
       /\ disk.files[p].text = save.data
       /\ disk.files[p].chunks > 0
       /\ disk.files[p].chunks < MaxChunks

\* the first non-empty cwd among the session's events in input order, "" when
\* none of them carries one
FirstCwd(id) ==
  LET with == {j \in SessionEventIndices(id) : events[j].cwd # ""}
  IN  IF with = {} THEN ""
      ELSE events[CHOOSE j \in with : \A j2 \in with : j <= j2].cwd

\* C20: the cwd reported for a session is the first non-empty cwd among that
\* session's events in input order, empty only when none carries one, both in
\* buildSummary(E).sessions and in buildSessionDetail(E, id).
C20_CwdFirstNonEmpty ==
  \A i \in 1..Len(Summary.sessions) :
    /\ Summary.sessions[i].cwd = FirstCwd(Summary.sessions[i].id)
    /\ buildSessionDetail(events, Summary.sessions[i].id).cwd
         = FirstCwd(Summary.sessions[i].id)

\* the indices of the events the argument p selects
MatchedIndices(p) == {j \in EventIndices : Selected(events[j], p)}

\* the index of the k-th event the argument p selects
MatchedAt(p, k) ==
  CHOOSE j \in MatchedIndices(p) : Cardinality({j2 \in MatchedIndices(p) : j2 < j}) = k - 1

TsLeq(a, b) == a = b \/ StrLess(a, b)

TimeOrdered(entries) ==
  \A k \in 1..(Len(entries) - 1) : TsLeq(entries[k].ts, entries[k + 1].ts)

\* C21 (as stated): for events in any input order, the detail's event list has one
\* entry per matched event and the ts of consecutive entries never decreases.
C21_TimeOrderedAsStated ==
  \A p \in SessionArgs :
    LET d == buildSessionDetail(events, p)
    IN  /\ Len(d.events) = Cardinality(MatchedIndices(p))
        /\ TimeOrdered(d.events)

\* C21 (amended): the detail's event list has one entry per matched event, in input
\* order; it is time-ordered whenever the matched events are in the input.
C21_InputOrdered ==
  \A p \in SessionArgs :
    LET d == buildSessionDetail(events, p)
    IN  /\ Len(d.events) = Cardinality(MatchedIndices(p))
        /\ \A k \in 1..Len(d.events) :
             /\ d.events[k].ts = events[MatchedAt(p, k)].ts
             /\ d.events[k].event = events[MatchedAt(p, k)].event
        /\ (\A i, j \in MatchedIndices(p) : i < j => TsLeq(events[i].ts, events[j].ts))
             => TimeOrdered(d.events)

\* A later event of s1 is logged before an earlier one, around an event of s2: the
\* detail of s1 lists the two in input order.
C21_Witness ==
  /\ Len(events) = 3
  /\ events[1].session_id = S1 /\ events[1].ts = TB
  /\ events[2].session_id = S2
  /\ events[3].session_id = S1 /\ events[3].ts = TA
  /\ Len(buildSessionDetail(events, S1).events) = 2
  /\ buildSessionDetail(events, S1).events[1].ts = TB
  /\ buildSessionDetail(events, S1).events[2].ts = TA

\* C22: every entry of the detail's event list carries the event's type, ts and tool
\* name, and as detail the event's tool_input_summary or else its prompt.
C22_EntryFields ==
  \A p \in SessionArgs :
    LET d == buildSessionDetail(events, p)
    IN  /\ Len(d.events) = Cardinality(MatchedIndices(p))
        /\ \A k \in 1..Len(d.events) :
             LET ev == events[MatchedAt(p, k)]
             IN  /\ d.events[k].event = ev.event
                 /\ d.events[k].ts = ev.ts
                 /\ d.events[k].tool = ev.data.tool_name
                 /\ d.events[k].detail =
                      IF ev.data.tool_input_summary # <<>> THEN ev.data.tool_input_summary
                      ELSE ev.data.prompt
                 /\ d.events[k].detail = SearchEntry(ev).detail

\* C23: no skillUsage entry has an empty name: a Skill tool event without a summary
\* and a slash prompt that is only "/" are counted under "unknown".
C23_NoEmptySkillName ==
  /\ \A i \in 1..Len(Summary.skillUsage) : Summary.skillUsage[i].name # <<>>
  /\ MapCount(Summary.skillUsage, UNKNOWN) =
       Cardinality({j \in EventIndices :
          /\ IsSkillTool(events[j])
          /\ events[j].data.tool_input_summary \in {<<>>, UNKNOWN}})
       + SlashUses(<<>>) + SlashUses(UNKNOWN)

\* handleListSessions without a filter: every session of the log with its status
AllSessionsListed ==
  handleListSessions(events, now, [status |-> "", since |-> <<>>, limit |-> <<>>])

\* C27: each session handleGetRecentActivity returns has the status handleListSessions
\* reports for it over the same log at the same instant, also when some of the
\* session's events lie before the window.
C27_RecentStatusAgrees ==
  \A a \in RecentArgs :
    LET recent == handleGetRecentActivity(events, now, a).sessions
    IN  \A i \in 1..Len(recent) :
          \E k \in 1..Len(AllSessionsListed) :
            /\ AllSessionsListed[k].id = recent[i].id
            /\ AllSessionsListed[k].status = recent[i].status

\* C28: looking a session of the summary up by its reported id finds all of its
\* events, and only its events when no other session id starts with it; this
\* includes the session "unknown" of the events without a session_id.
C28_LookupByReportedId ==
  \A i \in 1..Len(Summary.sessions) :
    LET s == Summary.sessions[i]
        d == buildSessionDetail(events, s.id)
    IN  /\ d.eventCount >= s.eventCount
        /\ (\A k \in 1..Len(Summary.sessions) :
              k # i => ~Selected([session_id |-> Summary.sessions[k].id], s.id))
             => d.eventCount = s.eventCount

\* the commands of the hooks of a settings object, of any type
UsedCommands(s) ==
  UNION {UNION {{GroupsOf(s, e)[i].hooks[j].command : j \in 1..Len(GroupsOf(s, e)[i].hooks)} :
                  i \in 1..Len(GroupsOf(s, e))} :
         e \in DOMAIN HooksOf(s)} \ {""}

\* C29: install followed by uninstall restores the settings: when no hook of the
\* settings s uses a command listed in the config c, removing c from the merge of
\* s and c gives s again, and merging c into that gives the first merge again.
C29_InstallUninstallRestores ==
  LET s == settings
      c == config
      merged   == mergeHooks(s, c)
      restored == removeHooksByConfig(merged, c)
  IN  UsedCommands(s) \cap ListedCommandsAnyType(c) = {} =>
        /\ restored = s
        /\ mergeHooks(restored, c) = merged

LegacySummary == legacyBuildSummary(events)

\* C26: the legacy buildSummary and the current one agree on the totals, the usage
\* lists, the orphans, the order of the sessions and their fields; they differ in
\* liveness only, the legacy isLive being the current isLive or isStale.
C26_LegacyAgrees ==
  /\ LegacySummary.totalEvents = Summary.totalEvents
  /\ LegacySummary.sessionCount = Summary.sessionCount
  /\ LegacySummary.toolCount = Summary.toolCount
  /\ LegacySummary.toolUsage = Summary.toolUsage
  /\ LegacySummary.skillUsage = Summary.skillUsage
  /\ LegacySummary.interruptCount = Summary.interruptCount
  /\ LegacySummary.orphanCount = Summary.orphanCount
  /\ LegacySummary.orphanIds = Summary.orphanIds
  /\ LegacySummary.liveSessionCount = Summary.liveSessionCount + Summary.staleSessionCount
  /\ Len(LegacySummary.sessions) = Len(Summary.sessions)
  /\ \A i \in 1..Len(Summary.sessions) :
       LET old == LegacySummary.sessions[i]
           new == Summary.sessions[i]
       IN  /\ old.id = new.id
           /\ old.eventCount = new.eventCount
           /\ old.firstTs = new.firstTs /\ old.lastTs = new.lastTs
           /\ old.cwd = new.cwd
           /\ old.hasInterrupt = new.hasInterrupt
           /\ old.orphanCount = new.orphanCount
           /\ old.hasSessionStart = new.hasSessionStart
           /\ old.hasSessionEnd = new.hasSessionEnd
           /\ old.isLive <=> (new.isLive \/ new.isStale)

\* A started session with an orphan tool call has gone stale: the legacy summary
\* still calls it live, beside an ended session that neither calls live.
C26_Witness ==
  /\ \E i \in 1..Len(Summary.sessions) :
       /\ Summary.sessions[i].isStale /\ ~Summary.sessions[i].isLive
       /\ LegacySummary.sessions[i].isLive
  /\ Summary.orphanCount = 1 /\ LegacySummary.orphanIds = <<"t1">>
  /\ Len(LegacySummary.toolUsage) = 1

\* every hook process and every rotation that started has finished
AllFinished ==
  \A l \in 1..MaxLoggers :
    hookProcs[l].pc \in {"idle", "done"} /\ hookProcs[l].rotate \in {"idle", "done"}

\* how many times the line stands in the current log and the archive together
Occurrences(line) ==
  LET kept == Content(logDir, "log") \o Content(logDir, "archive")
  IN  Cardinality({i \in 1..Len(kept) : kept[i] = line})

SseDone == SseData("done", <<"[DONE]">>)

DoneCount == Cardinality({k \in 1..Len(chat.written) : chat.written[k] = SseDone})

\* the response of a request that started the query has ended as it should:
\* [DONE] was written once, and last
EndedWithDone ==
  /\ chat.ended /\ chat.status = 200
  /\ Len(chat.written) > 0
  /\ chat.written[Len(chat.written)] = SseDone
  /\ DoneCount = 1

\* C24: a request whose body is valid JSON with a non-empty message leads, for
\* every conversation (texts, tool uses, results, nothing, an exception, a client
\* disconnect that aborts the query), to a response that ends with exactly one
\* data: [DONE], the handler's last write before it ends the response; nothing
\* is written after the end; any other body gets status 400 and starts no query.
C24_ChatEndsWithDone ==
  /\ (chat.pc = "received" /\ chat.body \in ValidChatBodies) ~> EndedWithDone
  /\ [](chat.ended /\ chat.status = 200 => EndedWithDone /\ chat.body \in ValidChatBodies)
  /\ [](chat.pc \notin {"idle", "received"} /\ chat.body \notin ValidChatBodies =>
          /\ chat.ended /\ chat.status = 400
          /\ ~chat.queryStarted /\ chat.written = <<>>)
  /\ [][chat.ended => chat'.written = chat.written]_vars

\* The client went away after a text had been written: the query was aborted,
\* the exception it threw wrote no error text, and [DONE] still came last.
C24_Witness ==
  /\ chat.ended /\ chat.aborted
  /\ chat.written = <<SseData("text", <<"hi">>), SseDone>>

FallbackText == SseData("text", <<"Error: No response received from Claude.">>)

\* C30: the fallback text is written only when no other text event (assistant
\* text, result text, error text of a non-success result) was written in the
\* stream, and the text of a success result only when no assistant text was
\* written before it.
C30_FallbackOnlyWhenSilent ==
  \A k \in 1..Len(chat.written) :
    /\ chat.written[k] = FallbackText =>
         \A j \in 1..Len(chat.written) : j # k => chat.written[j].kind # "text"
    /\ chat.written[k] = SseData("text", <<"res">>) =>
         \A j \in 1..(k - 1) : chat.written[j] # SseData("text", <<"hi">>)

====
